---- MODULE Spec2Model ----
(***************************************************************************)
(* Ingestion pipeline of umich-salary: the umsalary.info importer          *)
(* (import-from-umsalary.js), the PDF importer (import-from-pdf.js) and    *)
(* the title/department repair pass (fix-title-department.js), sharing the *)
(* salary_records table and the import-failures.log file.                  *)
(*                                                                         *)
(* A string that the heuristics inspect (title, department, roster name)   *)
(* is a sequence of lower-case words; '' is the empty sequence.  A row of  *)
(* salary_records is a record of its key columns and of ftr, gf; the table *)
(* is a bag of rows, so that two equal rows would be two copies.           *)
(***************************************************************************)
EXTENDS Bags, FiniteSets, Integers, Sequences, TLC

\* ---------------------------------------------------------------- bounds
\* number of script executions in one behaviour
MaxRuns == 1

\* rows per INSERT statement; the scripts use 100, the model a small value
\* so that one department's records span several statements
BATCH == 2

\* ------------------------------------------------------- program constants
\* fetchPage(url, retries = 2)
RETRIES == 2

\* words in a department string given to the repair pass
MaxWords == 2

\* anchors of a roster page given to parseDepartmentList
MaxAnchors == 3

YearKeys == {0, 1}

\* ----------------------------------------------------------------- helpers
Range(s) == {s[k] : k \in 1..Len(s)}

Min2(a, b) == IF a < b THEN a ELSE b

Max2(a, b) == IF a > b THEN a ELSE b

\* Array.prototype.slice(from, to) with 0-based from (inclusive), to (exclusive)
Slice(s, from, to) == SubSeq(s, from + 1, Min2(to, Len(s)))

IsPrefix(s, t) == Len(s) <= Len(t) /\ SubSeq(t, 1, Len(s)) = s

\* ------------------------------------------------------------- heuristics
\* words of fewer than three characters (a one-word string made of one of
\* them, and the empty string, fail the length >= 3 test)
ShortWords == {"vp", "sr", "of"}

TooShort(str) == Len(str) = 0 \/ (Len(str) = 1 /\ str[1] \in ShortWords)

\* words that contain "professor" (/professor/i has no word boundary)
ContainsProfessor == {"professor", "professors"}

\* words that begin with "prof" or "res" (/(prof|res)/ has no closing \b)
StartsProfRes == {"prof", "professor", "professors", "res", "research"}

HasWord(str, ws) == \E k \in 1..Len(str) : str[k] \in ws

HasPair(str, ws1, ws2) ==
    \E k \in 1..(Len(str) - 1) : str[k] \in ws1 /\ str[k + 1] \in ws2

\* the eight patterns shared by both scripts
CommonTitlePatterns(str) ==
    \/ HasWord(str, ContainsProfessor)
    \/ HasWord(str, {"scientist"})
    \/ HasWord(str, {"coach", "lecturer", "instructor"})
    \/ HasWord(str, {"adjunct"})
    \/ HasWord(str, {"fellow", "postdoc", "post-doc"})
    \/ HasPair(str, {"assoc", "asst"}, StartsProfRes)
    \/ \E k \in 1..Len(str) : \E m \in 1..Len(str) :
          m >= k + 2 /\ str[k] \in {"acad", "academic"} /\ str[m] \in {"ofcr", "officer"}
    \/ (Len(str) >= 2 /\ str[1] \in {"asst", "assoc", "assistant", "associate"})

\* fix-title-department.js: TITLE_LIKE_PATTERNS
TITLE_LIKE_PATTERNS(str) ==
    \/ CommonTitlePatterns(str)
    \/ HasWord(str, {"vp"})
    \/ HasPair(str, {"vice"}, {"president"})
    \/ HasPair(str, {"chief", "dir", "director"}, {"of"})
    \/ (Len(str) >= 2 /\ str[1] \in {"sr", "sr.", "senior"} /\ str[2] \in {"res", "research"})

\* the keyword list of looksLikeJobTitle in place of ORG_INDICATORS
ORG_INDICATORS_Roster(str) ==
    HasWord(str, {"department", "office", "center", "centre", "program", "admin",
                  "services", "division", "institute", "lab"})

\* fix-title-department.js: ORG_INDICATORS
ORG_INDICATORS(str) ==
    HasWord(str, {"department", "office", "center", "centre", "program", "admin",
                  "services", "division", "institute", "lab", "laboratory"})

\* fix-title-department.js: looksLikeTitle
looksLikeTitle(str) ==
    IF TooShort(str) THEN FALSE
    ELSE IF ORG_INDICATORS(str) THEN FALSE
    ELSE TITLE_LIKE_PATTERNS(str)

\* import-from-umsalary.js: looksLikeJobTitle
looksLikeJobTitle(name) ==
    IF TooShort(name) THEN FALSE
    ELSE IF HasWord(name, {"department", "office", "center", "centre", "program", "admin",
                           "services", "division", "institute", "lab"}) THEN FALSE
    ELSE CommonTitlePatterns(name)

\* ------------------------------------------------------------ salary rows
\* a key of the person and the year only
KeyOfPerson(r) == <<r.last_name, r.first_name, r.year_key>>

\* the key of idx_salary_import_key
Key(r) == <<r.last_name, r.first_name, r.title, r.department, r.year_key>>

\* rows of a department page of umsalary.info, as parseSalaryTable reads
\* the five cells (name split at the comma, amounts parsed)
RowA == [last_name |-> "Smith", first_name |-> "Aaron", title |-> <<"professor">>,
         department |-> <<"lsa", "history">>, ftr |-> 100, gf |-> 5]
\* the same person, title and department with another amount
RowA2 == [RowA EXCEPT !.ftr = 200]
\* a row whose department column holds a job title
RowT == [last_name |-> "Smith", first_name |-> "Aaron", title |-> <<"aaron">>,
         department |-> <<"research", "scientist">>, ftr |-> 300, gf |-> 0]
\* a row without a last name
RowNoName == [RowA EXCEPT !.last_name = ""]

\* parseSalaryTable: the records of one page (rows without last name are
\* dropped, year_key is the run's)
RECURSIVE parseSalaryTable(_, _)
parseSalaryTable(rows, yearKey) ==
    IF rows = <<>> THEN <<>>
    ELSE LET row == Head(rows)
             rest == parseSalaryTable(Tail(rows), yearKey)
         IN IF row.last_name = "" THEN rest
            ELSE <<[last_name |-> row.last_name, first_name |-> row.first_name,
                    title |-> row.title, department |-> row.department,
                    year_key |-> yearKey, ftr |-> row.ftr, gf |-> row.gf]>> \o rest

\* ------------------------------------------------------------------ store
HasKey(st, r) == \E x \in BagToSet(st) : Key(x) = Key(r)

\* INSERT ... VALUES batch ON CONFLICT (key) DO NOTHING: the resulting table,
\* the statement's rowCount, and whether the statement was rejected
\* an INSERT without the ON CONFLICT clause on a table without the index
InsertRowNoConflict(acc, r) ==
    [acc EXCEPT !.store = acc.store (+) SetToBag({r}), !.rowCount = acc.rowCount + 1]

\* an INSERT without the ON CONFLICT clause: the unique index rejects it
InsertRowPlain(acc, r) ==
    IF HasKey(acc.store, r) THEN [acc EXCEPT !.error = TRUE]
    ELSE [acc EXCEPT !.store = acc.store (+) SetToBag({r}), !.rowCount = acc.rowCount + 1]

InsertRow(acc, r) ==
    IF HasKey(acc.store, r) THEN acc
    ELSE [acc EXCEPT !.store = acc.store (+) SetToBag({r}), !.rowCount = acc.rowCount + 1]

RECURSIVE InsertRows(_, _)
InsertRows(acc, batch) ==
    IF batch = <<>> THEN acc
    ELSE InsertRows(InsertRow(acc, Head(batch)), Tail(batch))

\* a rejected statement leaves the table as it was
InsertBatch(st, batch) ==
    LET res == InsertRows([store |-> st, rowCount |-> 0, error |-> FALSE], batch)
    IN IF res.error THEN [store |-> st, rowCount |-> 0, error |-> TRUE] ELSE res

\* what client.query throws for the statement, "none" when it returns
QueryError(dbOk, res) ==
    IF ~dbOk THEN "connection" ELSE IF res.error THEN "duplicate key" ELSE "none"

\* no two rows of the table have the same key
UniqueKeys(st) ==
    /\ \A x \in BagToSet(st) : CopiesIn(x, st) = 1
    /\ \A x \in BagToSet(st) : \A y \in BagToSet(st) : Key(x) = Key(y) => x = y

\* ---------------------------------------------------------------- fetcher
\* one attempt of fetch(): "ok" or the error it throws
AttemptOutcomes == {"ok", "HTTP 500"}

\* what the RETRIES + 1 attempts of one fetchPage call would give: success
\* at once, success on the last retry, failure of every attempt
Attempts == {att \in [1..(RETRIES + 1) -> AttemptOutcomes] :
                \/ \A k \in 1..(RETRIES + 1) : att[k] = "ok"
                \/ \A k \in 1..(RETRIES + 1) : att[k] = "ok" <=> k = RETRIES + 1
                \/ \A k \in 1..(RETRIES + 1) : att[k] # "ok"}

\* fetchPage: att[k] is what the k-th attempt would give; the result of
\* the first successful attempt, else the last attempt's error
fetchPage(att) ==
    LET oks == {k \in 1..(RETRIES + 1) : att[k] = "ok"}
    IN IF oks # {}
       THEN [ok |-> TRUE, err |-> "", attempts |-> CHOOSE k \in oks : \A m \in oks : k <= m]
       ELSE [ok |-> FALSE, err |-> att[RETRIES + 1], attempts |-> RETRIES + 1]

\* ------------------------------------------------------------ failure log
\* a line of import-failures.log: a JSON entry, or a line JSON.parse rejects
Entry(yk, enc, nm, msg) ==
    [kind |-> "entry", yearKey |-> yk, encodedName |-> enc, name |-> nm, error |-> msg]

JunkLine == [kind |-> "junk", yearKey |-> -1, encodedName |-> "", name |-> <<>>, error |-> ""]

\* an appendFailure that leaves the run's year out of the line
appendFailureNoYear(led, yk, dept, msg, writeOk) ==
    IF writeOk THEN Append(led, Entry(0, dept.encodedName, dept.name, msg)) ELSE led

\* an appendFailure that writes no second line for a key
appendFailureOnce(led, yk, dept, msg, writeOk) ==
    IF writeOk /\ \A k \in 1..Len(led) :
                     ~(led[k].kind = "entry" /\ led[k].yearKey = yk
                         /\ led[k].encodedName = dept.encodedName)
    THEN Append(led, Entry(yk, dept.encodedName, dept.name, msg)) ELSE led

\* appendFailure: appendFileSync of one line; a write error is only warned
appendFailure(led, yk, dept, msg, writeOk) ==
    IF writeOk THEN Append(led, Entry(yk, dept.encodedName, dept.name, msg)) ELSE led

\* a readFailedEncodedNames without the yearKey comparison
readFailedEncodedNamesAnyYear(led, yk) ==
    {led[k].encodedName : k \in {m \in 1..Len(led) : led[m].kind = "entry"}}

\* readFailedEncodedNames
readFailedEncodedNames(led, yk) ==
    {led[k].encodedName : k \in {m \in 1..Len(led) : led[m].kind = "entry" /\ led[m].yearKey = yk}}

\* a removeFailedFromLog whose filter keeps the lines it should drop
removeFailedFromLogInverted(led, yk, encodedNames) ==
    IF led = <<>> \/ encodedNames = {} THEN led
    ELSE LET kept(line) == IF line.kind # "entry" THEN TRUE
                           ELSE IF line.yearKey # yk THEN TRUE
                           ELSE line.encodedName \in encodedNames
         IN SelectSeq(led, kept)

\* a removeFailedFromLog without the yearKey comparison
removeFailedFromLogAnyYear(led, yk, encodedNames) ==
    IF led = <<>> \/ encodedNames = {} THEN led
    ELSE LET kept(line) == IF line.kind # "entry" THEN TRUE
                           ELSE line.encodedName \notin encodedNames
         IN SelectSeq(led, kept)

\* removeFailedFromLog
removeFailedFromLog(led, yk, encodedNames) ==
    IF led = <<>> \/ encodedNames = {} THEN led
    ELSE LET kept(line) == IF line.kind # "entry" THEN TRUE
                           ELSE IF line.yearKey # yk THEN TRUE
                           ELSE line.encodedName \notin encodedNames
         IN SelectSeq(led, kept)

\* ------------------------------------------------------------------ roster
DeptHistory == [name |-> <<"lsa", "history">>, encodedName |-> "LSA+History"]
DeptAthletics == [name |-> <<"athletics">>, encodedName |-> "Athletics"]
DeptScientist == [name |-> <<"research", "scientist">>, encodedName |-> "Research+Scientist"]

\* decodeURIComponent(match[1].replace(/\+/g, ' ')) of the Dept= values that
\* occur, as the words the heuristics see
decodeURIComponent(raw) ==
    CASE raw = "LSA+History" -> <<"lsa", "history">>
      [] raw = "LSA%20History" -> <<"lsa", "history">>
      [] raw = "Athletics" -> <<"athletics">>
      [] raw = "Research+Scientist" -> <<"research", "scientist">>
      [] OTHER -> <<raw>>

\* an anchor a[href*="deptsearch.php"]: its trimmed text and the Dept= value
\* of its href ("" when the href has none)
Anchor(dept) == [text |-> "link", dept |-> dept.encodedName]

\* dept_list.php as its deptsearch.php anchors, in document order
RosterPages == {<<Anchor(DeptHistory), Anchor(DeptScientist), Anchor(DeptAthletics),
                  Anchor(DeptHistory)>>,
                <<Anchor(DeptAthletics)>>}

\* an anchor is read whatever its text
ContributesAnyText(a) == a.dept # ""

\* parseDepartmentList: if (!text || !match) continue
Contributes(a) == a.text # "" /\ a.dept # ""

\* parseDepartmentList: first anchor of each decoded name, job titles skipped
RECURSIVE parseDepartmentListFrom(_, _)
parseDepartmentListFrom(anchors, seen) ==
    IF anchors = <<>> THEN <<>>
    ELSE LET a == Head(anchors)
             encodedName == decodeURIComponent(a.dept)
         IN IF ~Contributes(a) THEN parseDepartmentListFrom(Tail(anchors), seen)
            ELSE IF encodedName \in seen THEN parseDepartmentListFrom(Tail(anchors), seen)
            ELSE IF looksLikeJobTitle(encodedName)
            THEN parseDepartmentListFrom(Tail(anchors), seen)
            ELSE <<[name |-> encodedName, encodedName |-> a.dept]>>
                   \o parseDepartmentListFrom(Tail(anchors), seen \cup {encodedName})

parseDepartmentList(anchors) == parseDepartmentListFrom(anchors, {})

\* options of import-from-umsalary.js (getOpt, getOnlyIndices); onlyIndices
\* <<>> stands for null or an empty list
HtmlModes == {[retryFailed |-> FALSE, onlyIndices |-> <<>>, skipDepts |-> 0, limitDepts |-> 0],
              [retryFailed |-> TRUE, onlyIndices |-> <<>>, skipDepts |-> 0, limitDepts |-> 0],
              [retryFailed |-> TRUE, onlyIndices |-> <<1>>, skipDepts |-> 1, limitDepts |-> 1],
              [retryFailed |-> FALSE, onlyIndices |-> <<2, 3, 1>>, skipDepts |-> 1, limitDepts |-> 0],
              [retryFailed |-> FALSE, onlyIndices |-> <<>>, skipDepts |-> 1, limitDepts |-> 0],
              [retryFailed |-> FALSE, onlyIndices |-> <<>>, skipDepts |-> 0, limitDepts |-> 1]}

\* a retry mode that takes its departments from the log, not from the roster
SelectDepartmentsFromLog(depts, led, yk, opt) ==
    LET mine == SelectSeq(led, LAMBDA line : line.kind = "entry" /\ line.yearKey = yk)
    IN [k \in 1..Len(mine) |-> [name |-> mine[k].name, encodedName |-> mine[k].encodedName]]

\* main: the working set chosen from the parsed roster
SelectDepartments(depts, led, yk, opt) ==
    IF opt.retryFailed
    THEN LET failedSet == readFailedEncodedNames(led, yk)
             inFailedSet(d) == d.encodedName \in failedSet
         IN SelectSeq(depts, inFailedSet)
    ELSE IF Len(opt.onlyIndices) > 0
    THEN LET inRange(idx) == idx <= Len(depts)
             valid == SelectSeq(opt.onlyIndices, inRange)
         IN [k \in 1..Len(valid) |-> depts[valid[k]]]
    ELSE LET skipped == IF opt.skipDepts > 0 THEN Slice(depts, opt.skipDepts, Len(depts)) ELSE depts
         IN IF opt.limitDepts > 0 THEN Slice(skipped, 0, opt.limitDepts) ELSE skipped

\* main returns early when retry mode or only-indices mode selects nothing
SelectsNothing(selected, opt) ==
    (opt.retryFailed \/ Len(opt.onlyIndices) > 0) /\ selected = <<>>

\* ------------------------------------------------------- department pages
\* a fetched result page: its "Page 1 of N" marker (-1 when absent) and the
\* data rows of its table
FirstPages == {[marker |-> -1, rows |-> <<RowA, RowNoName>>],
               [marker |-> 0, rows |-> <<>>],
               [marker |-> 2, rows |-> <<RowA, RowT>>]}

NextPages == {[marker |-> 2, rows |-> <<RowA2>>]}

\* parseTotalPages
parseTotalPages(html) == IF html.marker = -1 THEN 1 ELSE Max2(1, html.marker)

\* ------------------------------------------------------------------- text
\* A text that a parser reads character by character is a sequence of
\* one-character strings.
Digits == {"0", "1", "2", "3", "4", "5", "6", "7", "8", "9"}

DigitVal(c) ==
    CASE c = "0" -> 0 [] c = "1" -> 1 [] c = "2" -> 2 [] c = "3" -> 3 [] c = "4" -> 4
      [] c = "5" -> 5 [] c = "6" -> 6 [] c = "7" -> 7 [] c = "8" -> 8 [] c = "9" -> 9

\* \s
IsSpace(c) == c \in {" ", "\n", "\t"}

UpperCase == <<"A", "B", "C", "D", "E", "F", "G", "H", "I", "J", "K", "L", "M", "N", "O", "P", "Q", "R", "S", "T", "U", "V", "W", "X", "Y", "Z">>

LowerCase == <<"a", "b", "c", "d", "e", "f", "g", "h", "i", "j", "k", "l", "m", "n", "o", "p", "q", "r", "s", "t", "u", "v", "w", "x", "y", "z">>

\* String.prototype.toLowerCase, one character
Lower(c) ==
    IF \E k \in 1..26 : UpperCase[k] = c
    THEN LowerCase[CHOOSE k \in 1..26 : UpperCase[k] = c]
    ELSE c

\* String.prototype.trim
RECURSIVE TrimStart(_)
TrimStart(s) == IF s # <<>> /\ IsSpace(Head(s)) THEN TrimStart(Tail(s)) ELSE s

RECURSIVE TrimEnd(_)
TrimEnd(s) ==
    IF s # <<>> /\ IsSpace(s[Len(s)]) THEN TrimEnd(SubSeq(s, 1, Len(s) - 1)) ELSE s

Trim(s) == TrimEnd(TrimStart(s))

\* s.slice(from) and s.slice(from, to) with positions counted from 1, to
\* exclusive
From(s, p) == SubSeq(s, p, Len(s))

Before(s, p) == SubSeq(s, 1, p - 1)

StartsWithAt(s, p, lit) ==
    p >= 1 /\ p + Len(lit) - 1 <= Len(s) /\ SubSeq(s, p, p + Len(lit) - 1) = lit

\* the first of a finite set of positions; 0 when there is none
Least(ps) == IF ps = {} THEN 0 ELSE CHOOSE p \in ps : \A q \in ps : p <= q

\* String.prototype.indexOf, counted from 1; 0 when absent
IndexOf(s, lit) == Least({p \in 1..Len(s) : StartsWithAt(s, p, lit)})

\* the position after the spaces that begin at p
RECURSIVE SkipSpaces(_, _)
SkipSpaces(s, p) == IF p <= Len(s) /\ IsSpace(s[p]) THEN SkipSpaces(s, p + 1) ELSE p

\* split(/\s+/) of a trimmed text
RECURSIVE SplitWords(_)

\* the words of s, its first space being at p (0 when it has none)
SplitWordsAt(s, p) ==
    IF p = 0 THEN <<s>> ELSE <<Before(s, p)>> \o SplitWords(From(s, SkipSpaces(s, p)))

SplitWords(s) ==
    IF s = <<>> THEN <<>> ELSE SplitWordsAt(s, Least({p \in 1..Len(s) : IsSpace(s[p])}))

\* Array.prototype.join
RECURSIVE Join(_, _)
Join(words, sep) ==
    IF words = <<>> THEN <<>>
    ELSE IF Len(words) = 1 THEN words[1]
    ELSE words[1] \o sep \o Join(Tail(words), sep)

\* split on a separator character, the separator left out
RECURSIVE SplitOn(_, _)

\* the parts of s, its first separator being at p (0 when it has none)
SplitOnAt(s, sep, p) ==
    IF p = 0 THEN <<s>> ELSE <<Before(s, p)>> \o SplitOn(From(s, p + 1), sep)

SplitOn(s, sep) == SplitOnAt(s, sep, Least({p \in 1..Len(s) : s[p] = sep}))

\* ---------------------------------------------------------------- amounts
\* a number as parseFloat reads it: its whole part and its decimals without
\* trailing zeros, so that 62232.00 and 62232 are the same number
RECURSIVE WholeOf(_)
WholeOf(ds) == IF ds = <<>> THEN 0 ELSE 10 * WholeOf(SubSeq(ds, 1, Len(ds) - 1)) + DigitVal(ds[Len(ds)])

RECURSIVE DropZeros(_)
DropZeros(ds) ==
    IF ds # <<>> /\ ds[Len(ds)] = "0" THEN DropZeros(SubSeq(ds, 1, Len(ds) - 1)) ELSE ds

\* the position after the digits that begin at p
RECURSIVE SkipDigits(_, _)
SkipDigits(s, p) == IF p <= Len(s) /\ s[p] \in Digits THEN SkipDigits(s, p + 1) ELSE p

Number(whole, decimals) == [whole |-> WholeOf(whole), frac |-> DropZeros(decimals)]

Zero == Number(<<>>, <<>>)

\* parseFloat of a text without sign and exponent: the longest prefix
\* digits[.digits] after leading spaces, its whole part ending before p and
\* its decimals before q; NaN is [nan |-> TRUE]
FloatAt(s, p, q) ==
    IF p = 1 /\ q <= p + 1 THEN [nan |-> TRUE, n |-> Zero]
    ELSE [nan |-> FALSE,
          n |-> Number(SubSeq(s, 1, p - 1), IF q > p THEN SubSeq(s, p + 1, q - 1) ELSE <<>>)]

\* s has no leading spaces and its whole part ends before p
FloatFrom(s, p) ==
    FloatAt(s, p, IF p <= Len(s) /\ s[p] = "." THEN SkipDigits(s, p + 1) ELSE p)

parseFloat(text) == FloatFrom(TrimStart(text), SkipDigits(TrimStart(text), 1))

\* || 0
OrZero(f) == IF f.nan THEN Zero ELSE f.n

\* text.replace(/,/g, '')
NoCommas(text) == SelectSeq(text, LAMBDA c : c # ",")

\* parseFloat on the text as it stands: the number ends at the first comma
parseCurrencyCommas(text) == OrZero(parseFloat(text))

\* import-from-pdf.js: parseCurrency
parseCurrency(text) ==
    IF text = <<>> THEN Zero ELSE OrZero(parseFloat(NoCommas(text)))

\* --------------------------------------------------- the compact PDF parser
NA == <<"N", "/", "A">>

\* the campus tokens, and CAMPUS_IDS
CampusTokens == {<<"U", "M", "_", "A", "N", "N", "-", "A", "R", "B", "O", "R">>, <<"U", "M", "_", "F", "L", "I", "N", "T">>, <<"U", "M", "_", "D", "E", "A", "R", "B", "O", "R">>}

CampusId(campus) ==
    CASE campus = <<"U", "M", "_", "A", "N", "N", "-", "A", "R", "B", "O", "R">> -> 1
      [] campus = <<"U", "M", "_", "D", "E", "A", "R", "B", "O", "R">> -> 2
      [] campus = <<"U", "M", "_", "F", "L", "I", "N", "T">> -> 3
      [] OTHER -> 1

\* the position after the digits and commas that begin at p
RECURSIVE SkipDigitsCommas(_, _)
SkipDigitsCommas(s, p) ==
    IF p <= Len(s) /\ (s[p] \in Digits \/ s[p] = ",") THEN SkipDigitsCommas(s, p + 1) ELSE p

\* [\d,]+\.\d{2} at p, its digits and commas ending before q: the position
\* after it, 0 when it is not there
AmountEnd(s, p, q) ==
    IF q > p /\ q + 2 <= Len(s) /\ s[q] = "." /\ s[q + 1] \in Digits /\ s[q + 2] \in Digits
    THEN q + 3 ELSE 0

AmountAt(s, p) == AmountEnd(s, p, SkipDigitsCommas(s, p))

\* (8|9|12)-Month at p
BasisAt(s, p) ==
    IF p <= Len(s) /\ s[p] \in {"8", "9"} /\ StartsWithAt(s, p + 1, <<"-", "M", "o", "n", "t", "h">>) THEN p + 7
    ELSE IF StartsWithAt(s, p, <<"1", "2", "-", "M", "o", "n", "t", "h">>) THEN p + 8
    ELSE 0

\* \d\.\d{2} at p
FractionAt(s, p) ==
    IF p + 3 <= Len(s) /\ s[p] \in Digits /\ s[p + 1] = "." /\ s[p + 2] \in Digits
         /\ s[p + 3] \in Digits
    THEN p + 4 ELSE 0

NoTail ==
    [ok |-> FALSE, index |-> 0, ftr |-> <<>>, basis |-> <<>>, fraction |-> <<>>, gf |-> <<>>]

\* TAIL_RE tried at p, group by group: the amount ends before a, the basis
\* is between bs and b, the fraction between fs and f, the last amount
\* between gs and g, and only spaces follow it
TailGf(s, p, a, bs, b, fs, f, gs, g) ==
    IF g = 0 \/ SkipSpaces(s, g) # Len(s) + 1 THEN NoTail
    ELSE [ok |-> TRUE, index |-> p,
          ftr |-> SubSeq(s, p, a - 1),
          basis |-> SubSeq(s, bs, b - 7),
          fraction |-> SubSeq(s, fs, f - 1),
          gf |-> SubSeq(s, gs, g - 1)]

TailFraction(s, p, a, bs, b, fs, f) ==
    IF f = 0 THEN NoTail
    ELSE TailGf(s, p, a, bs, b, fs, f, SkipSpaces(s, f), AmountAt(s, SkipSpaces(s, f)))

TailBasis(s, p, a, bs, b) ==
    IF b = 0 THEN NoTail
    ELSE TailFraction(s, p, a, bs, b, SkipSpaces(s, b), FractionAt(s, SkipSpaces(s, b)))

TailAmount(s, p, a) ==
    IF a = 0 THEN NoTail
    ELSE TailBasis(s, p, a, SkipSpaces(s, a), BasisAt(s, SkipSpaces(s, a)))

\* TAIL_RE tried at p: the four groups when the text from p to its end is
\* amount, basis-Month, fraction, amount, with optional spaces between them
\* and after them
TailAt(s, p) == TailAmount(s, p, AmountAt(s, p))

TailFrom(s, p) == IF p = 0 THEN NoTail ELSE TailAt(s, p)

\* rest.match(TAIL_RE): the leftmost place where the pattern matches
TAIL_RE(s) == TailFrom(s, Least({p \in 1..Len(s) : TailAt(s, p).ok}))

\* DEPT_PREFIXES, in the order they are tried
DEPT_PREFIXES ==
    <<<<" ", "M", "M", " ">>, <<" ", "L", "S", "A", " ">>, <<" ", "D", "E", "N", "T", " ">>, <<" ", "R", "o", "s", "s", " ">>, <<" ", "C", "o", "l", "l", "e", "g", "e", " ">>, <<" ", "S", "c", "h", "o", "o", "l", " ", "o", "f", " ">>,
      <<" ", "B", "u", "i", "l", "d", "i", "n", "g", " ">>, <<" ", "M", "M", " ">>, <<" ", "L", "S", "A", " ">>, <<" ", "D", "E", "N", "T", " ">>, <<" ", "R", "o", "s", "s", " ">>>>

\* DEPT_START_PATTERNS, each /\s+W1(\s+W2)?\s+/i as its words in lower case
DEPT_START_PATTERNS ==
    <<<<<<"m", "m">>>>, <<<<"l", "s", "a">>>>, <<<<"d", "e", "n", "t">>>>, <<<<"r", "o", "s", "s">>>>, <<<<"c", "o", "l", "l", "e", "g", "e">>>>,
      <<<<"s", "c", "h", "o", "o", "l">>, <<"o", "f">>>>, <<<<"b", "u", "i", "l", "d", "i", "n", "g">>>>, <<<<"o", "u", "a">>>>, <<<<"u", "m", "h">>>>, <<<<"d", "p", "s", "s">>>>,
      <<<<"s", "r", "c">>>>, <<<<"c", "o", "e">>>>, <<<<"d", "b", "n">>>>>>

LowerText(s) == [k \in 1..Len(s) |-> Lower(s[k])]

\* a pattern of DEPT_START_PATTERNS tried at p: spaces, the words with
\* spaces between them, spaces
RECURSIVE WordsAt(_, _, _)
WordsAt(s, p, words) ==
    IF p > Len(s) \/ ~IsSpace(s[p]) THEN FALSE
    ELSE IF words = <<>> THEN TRUE
    ELSE /\ StartsWithAt(LowerText(s), SkipSpaces(s, p), Head(words))
         /\ WordsAt(s, SkipSpaces(s, p) + Len(Head(words)), Tail(words))

\* t.match(re).index, counted from 1; 0 when there is no match
PatternIndex(t, words) == Least({p \in 1..Len(t) : WordsAt(t, p, words)})

\* replace(/\s*[-...]\s*$/, ''): a closing hyphen with the spaces around it
\* (the texts tried have no en dash)
DropDashEnd(s, e) ==
    IF e # <<>> /\ e[Len(e)] = "-" THEN TrimEnd(SubSeq(e, 1, Len(e) - 1)) ELSE s

DropDash(s) == DropDashEnd(s, TrimEnd(s))

OrNA(s) == IF s = <<>> THEN NA ELSE s

\* normalizeTitleAndDepartment: the loop over the patterns from the k-th on
RECURSIVE normalizeFrom(_, _, _)

\* the body of the loop: the k-th pattern matches at idx (0 when it does
\* not), before and after being the title and the department it gives
normalizeCut(t, d, k, idx, before, after) ==
    IF idx # 0 /\ Len(before) >= 2 /\ Len(after) >= 2
    THEN [title |-> OrNA(before),
          department |-> OrNA(IF d # <<>> /\ d # NA THEN d ELSE after)]
    ELSE normalizeFrom(t, d, k + 1)

normalizeAt(t, d, k, idx) ==
    normalizeCut(t, d, k, idx, Trim(DropDash(Before(t, idx))), Trim(From(t, idx)))

normalizeFrom(t, d, k) ==
    IF k > Len(DEPT_START_PATTERNS) THEN [title |-> OrNA(t), department |-> OrNA(d)]
    ELSE normalizeAt(t, d, k, PatternIndex(t, DEPT_START_PATTERNS[k]))

\* normalizeTitleAndDepartment on the trimmed title and department
normalizeTrimmed(t, d) ==
    IF t = <<>> THEN [title |-> NA, department |-> OrNA(d)] ELSE normalizeFrom(t, d, 1)

\* normalizeTitleAndDepartment
normalizeTitleAndDepartment(title, department) ==
    normalizeTrimmed(Trim(title), Trim(department))

\* parseRecordChunk: the department found with the first prefix of
\* DEPT_PREFIXES, from the k-th on, that occurs in afterName
RECURSIVE splitAtPrefix(_, _)

\* the k-th prefix occurs in afterName at pos (0 when it does not)
splitAtPos(afterName, k, prefix, pos) ==
    IF pos # 0
    THEN [beforeDept |-> Trim(Before(afterName, pos)),
          department |-> Trim(Trim(prefix) \o From(afterName, pos + Len(prefix)))]
    ELSE splitAtPrefix(afterName, k + 1)

splitAtPrefix(afterName, k) ==
    IF k > Len(DEPT_PREFIXES) THEN [beforeDept |-> afterName, department |-> NA]
    ELSE splitAtPos(afterName, k, DEPT_PREFIXES[k], IndexOf(afterName, DEPT_PREFIXES[k]))

NoRecord == [ok |-> FALSE]

\* a record of a PDF row, norm being the title and the department that
\* normalizeTitleAndDepartment gives
PdfRecord(campus, last_name, first_name, norm, ftr, gf, period_fte) ==
    [ok |-> TRUE,
     last_name |-> last_name,
     first_name |-> first_name,
     title |-> norm.title,
     department |-> norm.department,
     campus |-> campus,
     campus_id |-> CampusId(campus),
     ftr |-> ftr,
     gf |-> gf,
     period_fte |-> period_fte]

\* parseRecordChunk after each of its steps: the words before the
\* department, the first being the first name and the others the title
chunkWords(campus, tailMatch, last_name, found, words) ==
    PdfRecord(campus, last_name,
              IF words = <<>> THEN NA ELSE words[1],
              normalizeTitleAndDepartment(
                  IF Len(words) > 1 THEN Join(Tail(words), <<" ">>) ELSE NA, found.department),
              parseCurrency(tailMatch.ftr),
              parseCurrency(tailMatch.gf),
              tailMatch.basis \o <<"M", "o", "n", "t", "h">> \o tailMatch.fraction)

chunkDept(campus, tailMatch, last_name, found) ==
    chunkWords(campus, tailMatch, last_name, found, SplitWords(found.beforeDept))

chunkName(campus, tailMatch, last_name, afterName) ==
    IF last_name = <<>> \/ afterName = <<>> THEN NoRecord
    ELSE chunkDept(campus, tailMatch, last_name, splitAtPrefix(afterName, 1))

chunkComma(campus, tailMatch, middle, commaIdx) ==
    IF commaIdx = 0 THEN NoRecord
    ELSE chunkName(campus, tailMatch, Trim(Before(middle, commaIdx)),
                   Trim(From(middle, commaIdx + 1)))

chunkMiddle(campus, tailMatch, middle) ==
    IF middle = <<>> THEN NoRecord
    ELSE chunkComma(campus, tailMatch, middle, IndexOf(middle, <<",">>))

chunkTail(campus, rest, tailMatch) ==
    IF ~tailMatch.ok THEN NoRecord
    ELSE chunkMiddle(campus, tailMatch, Trim(Before(rest, tailMatch.index)))

\* parseRecordChunk; null is NoRecord
parseRecordChunk(campus, rest) == chunkTail(campus, rest, TAIL_RE(rest))
\* ------------------------------------------------ campus-delimited chunks
\* the campus tokens that begin at p (at most one)
CampusAt(text, p) == {c \in CampusTokens : StartsWithAt(text, p, c)}

\* a finite set of numbers in ascending order
RECURSIVE Ascending(_)
Ascending(S) ==
    IF S = {} THEN <<>>
    ELSE LET m == CHOOSE x \in S : \A y \in S : x <= y
         IN <<m>> \o Ascending(S \ {m})

\* the campus token at each of the places ps
MatchesAt(text, ps) ==
    [k \in 1..Len(ps) |->
        [index |-> ps[k], campus |-> CHOOSE c \in CampusAt(text, ps[k]) : TRUE]]

\* the matches of /(UM_ANN-ARBOR|UM_FLINT|UM_DEARBOR)/g in order (no token
\* overlaps another)
CampusMatches(text) ==
    MatchesAt(text, Ascending({p \in 1..Len(text) : CampusAt(text, p) # {}}))

\* the text between each of the matches ms and the next (or the end), trimmed
ChunksOf(text, ms) ==
    [k \in 1..Len(ms) |->
        [campus |-> ms[k].campus,
         rest |-> Trim(SubSeq(text, ms[k].index + Len(ms[k].campus),
                              IF k < Len(ms) THEN ms[k + 1].index - 1 ELSE Len(text)))]]

\* the text between each campus token and the next (or the end), trimmed
Chunks(text) == ChunksOf(text, CampusMatches(text))

\* every chunk, whatever its length
splitIntoRecordsAll(text) == Chunks(text)

\* splitIntoRecords: the chunks of more than 10 characters
splitIntoRecords(text) == SelectSeq(Chunks(text), LAMBDA c : Len(c.rest) > 10)

\* main, compact path, the body of the loop: r is pushed or counted
pushOrCount(r, more) ==
    IF r.ok THEN [more EXCEPT !.records = <<r>> \o @]
    ELSE [more EXCEPT !.parseFail = @ + 1]

\* main, compact path: the records and the count of chunks that gave none
RECURSIVE parseChunks(_)
parseChunks(rawRecords) ==
    IF rawRecords = <<>> THEN [records |-> <<>>, parseFail |-> 0]
    ELSE pushOrCount(parseRecordChunk(Head(rawRecords).campus, Head(rawRecords).rest),
                     parseChunks(Tail(rawRecords)))

\* ------------------------------------------------ the line-block PDF parser
\* .map(s => s.trim())
TrimAll(parts) == [k \in 1..Len(parts) |-> Trim(parts[k])]

\* block.split(/\n/).map(trim).filter(Boolean)
LinesOf(block) == SelectSeq(TrimAll(SplitOn(block, "\n")), LAMBDA l : l # <<>>)

\* /^(8|9|12)-Month\s*$/i on a trimmed line
IsBasisLine(line) ==
    LowerText(line) \in {<<"8", "-", "m", "o", "n", "t", "h">>, <<"9", "-", "m", "o", "n", "t", "h">>, <<"1", "2", "-", "m", "o", "n", "t", "h">>}

\* /^[\d,]+\.?\d*$/ : digits and commas (ending before p), then optionally
\* a point and digits
IsFtrEnd(s, p) ==
    p > 1 /\ SkipDigits(s, IF p <= Len(s) /\ s[p] = "." THEN p + 1 ELSE p) = Len(s) + 1

IsFtrText(s) == IsFtrEnd(s, SkipDigitsCommas(s, 1))

\* FTR_BASIS_SAME_LINE on a trimmed line, the basis beginning at p (0 when
\* the line does not match)
SameLineAt(line, p) ==
    IF p = 0 THEN [ok |-> FALSE, ftr |-> <<>>, basis |-> <<>>]
    ELSE [ok |-> TRUE, ftr |-> TrimEnd(Before(line, p)),
          basis |-> SubSeq(line, p, Len(line) - 6)]

\* FTR_BASIS_SAME_LINE on a trimmed line: the amount, optional spaces, the
\* basis (at most one place divides a line so)
SameLine(line) ==
    SameLineAt(line, Least({p \in 2..Len(line) :
                               /\ IsBasisLine(From(line, p))
                               /\ IsFtrText(TrimEnd(Before(line, p)))
                               /\ TrimStart(Before(line, p)) = Before(line, p)}))

\* parseLineByLineRecords, the record of a block that is not skipped
blockRecord(campus, nameLine, commaIdx, lines, ftrStr, basisStr, fractionStr, gfStr) ==
    PdfRecord(campus,
              Trim(Before(nameLine, commaIdx)),
              OrNA(Trim(From(nameLine, commaIdx + 1))),
              normalizeTitleAndDepartment(OrNA(lines[2]), OrNA(lines[3])),
              parseCurrency(ftrStr),
              parseCurrency(gfStr),
              (IF basisStr = <<>> THEN <<"1", "2">> ELSE basisStr) \o <<"M", "o", "n", "t", "h">>
                  \o (IF fractionStr = <<>> THEN <<"1", ".", "0", "0">> ELSE fractionStr))

\* format A when the fourth line holds the rate and the basis, format B
\* when the fifth line is the basis and there are seven lines
blockPay(campus, lines, commaIdx, matchSame) ==
    IF matchSame.ok
    THEN blockRecord(campus, lines[1], commaIdx, lines,
                     matchSame.ftr, matchSame.basis, lines[5], lines[6])
    ELSE IF Len(lines) >= 7 /\ IsBasisLine(lines[5])
    THEN blockRecord(campus, lines[1], commaIdx, lines,
                     lines[4], Trim(SubSeq(lines[5], 1, Len(lines[5]) - 6)), lines[6], lines[7])
    ELSE NoRecord

blockName(campus, lines, commaIdx) ==
    IF commaIdx = 0 THEN NoRecord ELSE blockPay(campus, lines, commaIdx, SameLine(lines[4]))

blockLines(campus, lines) ==
    IF Len(lines) < 6 THEN NoRecord ELSE blockName(campus, lines, IndexOf(lines[1], <<",">>))

\* parseLineByLineRecords: one block; NoRecord when it is skipped
parseBlock(campus, blockText) == blockLines(campus, LinesOf(Trim(blockText)))

\* parseLineByLineRecords, the loop over the blocks
parseBlocks(blocks) ==
    SelectSeq([k \in 1..Len(blocks) |-> parseBlock(blocks[k].campus, blocks[k].rest)],
              LAMBDA r : r.ok)

\* parseLineByLineRecords: text.split(re) gives the campus tokens and the
\* blocks after them
parseLineByLineRecords(text) == parseBlocks(Chunks(text))

\* --------------------------------------------- the rows of a result table
\* A tr of a department page is the number of its th cells, its text and
\* the texts of its td cells; a page is the sequence of its tables, a table
\* the sequence of its rows.

\* import-from-umsalary.js: parseSalary
parseSalary(text) ==
    IF text = <<>> THEN Zero
    ELSE OrZero(parseFloat(SelectSeq(text, LAMBDA c : c \notin {"$", ","})))

\* parseSalaryTable, the record of a data row whose name has been split
rowRecord(cells, lastName, firstName) ==
    IF lastName = <<>> THEN NoRecord
    ELSE [ok |-> TRUE,
          last_name |-> lastName,
          first_name |-> firstName,
          title |-> Trim(cells[2]),
          department |-> Trim(cells[3]),
          campus |-> <<"U", "M", "_", "A", "N", "N", "-", "A", "R", "B", "O", "R">>,
          campus_id |-> 1,
          ftr |-> parseSalary(Trim(cells[4])),
          gf |-> parseSalary(Trim(cells[5])),
          period_fte |-> <<"1", "2", "-", "M", "o", "n", "t", "h", "1", ".", "0", "0">>]

\* the name cut at the comma at commaIdx (0 when it has none)
rowCutAt(cells, nameText, commaIdx) ==
    rowRecord(cells,
              IF commaIdx = 0 THEN nameText ELSE Trim(Before(nameText, commaIdx)),
              IF commaIdx = 0 THEN <<>> ELSE Trim(From(nameText, commaIdx + 1)))

\* a data row read with the name cut at its first comma only
parseSalaryRowFirstComma(cells) ==
    rowCutAt(cells, Trim(cells[1]), IndexOf(Trim(cells[1]), <<",">>))

\* nameParts = nameText.split(',').map(trim): the first is the last name,
\* the others joined by spaces the first name
rowOfParts(cells, nameParts) ==
    rowRecord(cells, nameParts[1], Trim(Join(Tail(nameParts), <<" ">>)))

\* parseSalaryTable, the body of the row loop for a data row: the record of
\* a row of at least five cells, NoRecord when the row has no last name
parseSalaryRow(cells) == rowOfParts(cells, TrimAll(SplitOn(Trim(cells[1]), ",")))

\* the header row test: at least five th, and a text with "ftr" and "gf"
IsHeaderRow(tr) ==
    /\ tr.ths >= 5
    /\ IndexOf(LowerText(tr.text), <<"f", "t", "r">>) # 0
    /\ IndexOf(LowerText(tr.text), <<"g", "f">>) # 0

\* parseSalaryTable: the rows of one table, dataStart being whether the
\* header row was seen
RECURSIVE parseTableRows(_, _)
parseTableRows(rows, dataStart) ==
    IF rows = <<>> THEN <<>>
    ELSE LET tr == Head(rows)
         IN IF tr.ths >= 5
            THEN parseTableRows(Tail(rows), dataStart \/ IsHeaderRow(tr))
            ELSE IF Len(tr.cells) >= 5 /\ dataStart /\ parseSalaryRow(tr.cells).ok
            THEN <<parseSalaryRow(tr.cells)>> \o parseTableRows(Tail(rows), dataStart)
            ELSE parseTableRows(Tail(rows), dataStart)

\* the records of a table when it has any, those of the tables after it
\* otherwise
RECURSIVE parseSalaryTables(_)

firstWithRecords(records, tables) ==
    IF records # <<>> THEN records ELSE parseSalaryTables(Tail(tables))

\* parseSalaryTable on the tables of a page: the records of the first
\* table that has any
parseSalaryTables(tables) ==
    IF tables = <<>> THEN <<>>
    ELSE firstWithRecords(parseTableRows(Head(tables), FALSE), tables)
\* ------------------------------------------------------------------ state
VARIABLES
    store,            \* salary_records
    ledger,           \* import-failures.log, line by line
    pc,               \* where the running script stands
    script,           \* "html", "pdf", "fix" or "none"
    runs,             \* script executions started so far
    yearKey,          \* YEAR of the run
    retryFailed,      \* RETRY_FAILED of the run
    departments,      \* the working set of the run
    i,                \* 1-based position in departments
    page,             \* next page of the current department
    totalPages,       \* pages of the current department
    allRecords,       \* records gathered for the current load
    b,                \* offset of the next batch in allRecords
    inserted,         \* rows inserted for the current department
    totalInserted,    \* the run's "Inserted" count
    totalSkipped,     \* the run's "skipped (duplicates)" count
    succeededEncoded, \* departments completed in this run
    toFix,            \* fix-title-department.js: rows still to update
    updated,          \* fix-title-department.js: rows updated
    exitCode,         \* -1 while a script runs, else its exit status
    attempted,        \* history: departments whose processing began, in order
    failed,           \* history: the appendFailure calls of the run, as the lines they ask for
    fatal,            \* history: an error reached the outer catch or exit(1)
    loadErrors,       \* history: what the INSERT statements of this run threw, in order
    warnings,         \* history: "Could not write failure log" warnings
    firstPass,        \* history: the candidate records of a repeated load and its first pass
    ledger0,          \* history: the failure log when the running script started
    opts,             \* history: --dry-run, CLEAR and the PDF source of the running script
    job,              \* the inputs a followed run is given, fixed for its reruns
    net,              \* the requests and delays of a followed umsalary import
    parse             \* what the parsers made of the text a followed run is given

vars == <<store, ledger, pc, script, runs, yearKey, retryFailed, departments, i, page,
          totalPages, allRecords, b, inserted, totalInserted, totalSkipped,
          succeededEncoded, toFix, updated, exitCode, attempted, failed, fatal, loadErrors, warnings,
          firstPass, ledger0, opts, job, net, parse>>

\* the table as a bag of rows
RowOf(row, yk) == parseSalaryTable(<<row>>, yk)[1]

\* what the repair pass makes of a row
Repaired(row) == [row EXCEPT !.title = row.department, !.department = <<>>]

\* tables left by earlier imports and repair passes
InitialStores == {EmptyBag,
                  SetToBag({RowOf(RowA, 0), RowOf(RowT, 1)}),
                  SetToBag({RowOf(RowT, 0), Repaired(RowOf(RowT, 0))})}

\* a script without --dry-run that read no PDF
NoOpts == [dryRun |-> FALSE, clear |-> FALSE, file |-> "none", url |-> "none",
           fetched |-> "none", answer |-> "none"]

\* no run is followed
NoJob == [kind |-> "none"]

\* what a request can be answered with: an error of fetch() or a status
\* that is not ok, else the page
FetchErrors == {"HTTP 500", "ECONNRESET"}

NoHtml == [anchors |-> <<>>, marker |-> -1, rows |-> <<>>]

\* no fetchPage call has ended yet; no department has ended yet
NoCall == [unit |-> -1, page |-> 0, trace |-> <<>>, outcomes |-> <<>>, ok |-> FALSE,
           err |-> "", html |-> NoHtml]

NoUnit == [unit |-> -1, marker |-> -1, pages |-> <<>>, clean |-> FALSE, ok |-> FALSE]

\* no import is followed request by request
NetOff == [pc |-> "off", unit |-> 0, units |-> 0, page |-> 1, totalPages |-> 1,
           marker |-> -1, attempt |-> 0, lastErr |-> "", inflight |-> 0,
           trace |-> <<>>, outcomes |-> <<>>, pages |-> <<>>, clean |-> TRUE,
           lastCall |-> NoCall, lastUnit |-> NoUnit]

\* what a parser made of a text: the campus tokens it saw, its records and
\* the chunks main counted as unparsed
NoOutcome == [format |-> "none", chunks |-> 0, raw |-> 0, records |-> <<>>, parseFail |-> 0]

\* no text is being parsed and no name is being classified
NoParse == [done |-> {}, compact |-> NoOutcome, lines |-> NoOutcome, html |-> <<>>,
            skipped |-> FALSE, leaked |-> FALSE]

\* no repeated load is being followed
NoPass == [pass |-> 0, R |-> <<>>, store |-> EmptyBag, inserted |-> 0, skipped |-> 0]

\* logs left by earlier runs, one of them with a line that is not JSON
InitialLedgers ==
    {<<>>,
     <<JunkLine,
       Entry(0, DeptHistory.encodedName, DeptHistory.name, "HTTP 500"),
       Entry(1, DeptHistory.encodedName, DeptHistory.name, "HTTP 500"),
       Entry(0, DeptHistory.encodedName, DeptHistory.name, "connection")>>,
     <<Entry(1, DeptAthletics.encodedName, DeptAthletics.name, "HTTP 500"),
       Entry(0, DeptHistory.encodedName, DeptHistory.name, "connection")>>}

\* no script has run yet
Idle ==
    /\ pc = "idle"
    /\ script = "none"
    /\ runs = 0
    /\ yearKey = 0
    /\ retryFailed = FALSE
    /\ departments = <<>>
    /\ i = 1
    /\ page = 1
    /\ totalPages = 1
    /\ allRecords = <<>>
    /\ b = 0
    /\ inserted = 0
    /\ totalInserted = 0
    /\ totalSkipped = 0
    /\ succeededEncoded = {}
    /\ toFix = <<>>
    /\ updated = 0
    /\ exitCode = -1
    /\ attempted = <<>>
    /\ failed = <<>>
    /\ fatal = FALSE
    /\ loadErrors = <<>>
    /\ warnings = 0
    /\ firstPass = NoPass
    /\ ledger0 = ledger
    /\ opts = NoOpts
    /\ net = NetOff
    /\ parse = NoParse

Init ==
    /\ store \in InitialStores
    /\ ledger \in InitialLedgers
    /\ job = NoJob
    /\ Idle

\* how many scripts are started: MaxRuns, or the runs a followed series
\* of imports is made of
RunLimit == IF job.kind \in {"series", "retries", "reload"} THEN Len(job.plan) ELSE MaxRuns

CanStart == pc \in {"idle", "done"} /\ runs < RunLimit

\* the locals of a department's iteration at the top of the loop body
ResetDept ==
    /\ page' = 1
    /\ totalPages' = 1
    /\ allRecords' = <<>>
    /\ b' = 0
    /\ inserted' = 0

\* the histories of a run at its start
ResetHistory ==
    /\ attempted' = <<>>
    /\ failed' = <<>>
    /\ loadErrors' = <<>>
    /\ warnings' = 0

\* ------------------------------------------------- import-from-umsalary.js
\* an outer catch that forgets process.exitCode = 1
OuterCatchExitZero ==
    /\ pc' = "done"
    /\ fatal' = TRUE
    /\ exitCode' = 0

\* main: the outer catch, finally and process.exit(process.exitCode || 0)
OuterCatch ==
    /\ pc' = "done"
    /\ fatal' = TRUE
    /\ exitCode' = 1

\* main up to the department loop: options, roster fetch, parseDepartmentList
\* and the choice of the working set
HtmlListing(yk, opt, att, rosterPage) ==
    /\ CanStart
    /\ runs' = runs + 1
    /\ script' = "html"
    /\ yearKey' = yk
    /\ retryFailed' = opt.retryFailed
    /\ i' = 1
    /\ ResetDept
    /\ ResetHistory
    /\ totalInserted' = 0
    /\ totalSkipped' = 0
    /\ succeededEncoded' = {}
    /\ UNCHANGED <<store, ledger, toFix, updated, firstPass>>
    /\ ledger0' = ledger
    /\ opts' = NoOpts
    /\ UNCHANGED <<job, net, parse>>
    /\ LET res == fetchPage(att)
           selected == SelectDepartments(parseDepartmentList(rosterPage), ledger, yk, opt)
       IN IF ~res.ok
          THEN /\ departments' = <<>>
               /\ OuterCatch
          ELSE /\ departments' = selected
               /\ fatal' = FALSE
               /\ IF selected = <<>>
                  THEN pc' = "done" /\ exitCode' = 0
                  ELSE pc' = "iterating" /\ exitCode' = -1

\* the end of one loop iteration: i++, and after the last department the
\* rest of main (removeFailedFromLog in retry mode, summary, exit)
AfterDept(led, succ) ==
    /\ i' = i + 1
    /\ succeededEncoded' = succ
    /\ IF i + 1 > Len(departments)
       THEN /\ pc' = "done"
            /\ exitCode' = 0
            /\ ledger' = IF retryFailed /\ succ # {}
                         THEN removeFailedFromLog(led, yearKey, succ)
                         ELSE led
       ELSE /\ pc' = "iterating"
            /\ exitCode' = exitCode
            /\ ledger' = led

\* a catch that rethrows after logging: the outer catch ends the run
DeptFailedAborts(msg, writeOk) ==
    /\ failed' = Append(failed, Entry(yearKey, departments[i].encodedName, departments[i].name, msg))
    /\ warnings' = IF writeOk THEN warnings ELSE warnings + 1
    /\ i' = i + 1
    /\ succeededEncoded' = succeededEncoded
    /\ pc' = "done"
    /\ exitCode' = 1
    /\ ledger' = appendFailure(ledger, yearKey, departments[i], msg, writeOk)

\* a catch that also sets process.exitCode = 1
DeptFailedExitsOne(msg, writeOk) ==
    /\ failed' = Append(failed, Entry(yearKey, departments[i].encodedName, departments[i].name, msg))
    /\ warnings' = IF writeOk THEN warnings ELSE warnings + 1
    /\ i' = i + 1
    /\ succeededEncoded' = succeededEncoded
    /\ LET led == appendFailure(ledger, yearKey, departments[i], msg, writeOk)
       IN IF i + 1 > Len(departments)
          THEN /\ pc' = "done"
               /\ exitCode' = 1
               /\ ledger' = IF retryFailed /\ succeededEncoded # {}
                            THEN removeFailedFromLog(led, yearKey, succeededEncoded)
                            ELSE led
          ELSE /\ pc' = "iterating"
               /\ exitCode' = exitCode
               /\ ledger' = led

\* the catch of the loop body: appendFailure, then the next department
DeptFailed(msg, writeOk) ==
    /\ failed' = Append(failed, Entry(yearKey, departments[i].encodedName, departments[i].name, msg))
    /\ warnings' = IF writeOk THEN warnings ELSE warnings + 1
    /\ AfterDept(appendFailure(ledger, yearKey, departments[i], msg, writeOk), succeededEncoded)

\* the end of the try block: totals and succeededEncoded.add
DeptSucceeded(recs, ins) ==
    /\ totalInserted' = totalInserted + ins
    /\ totalSkipped' = totalSkipped + (Len(recs) - ins)
    /\ UNCHANGED <<failed, warnings>>
    /\ AfterDept(ledger, succeededEncoded \cup {departments[i].encodedName})

\* loop body, first request: page 1 of departments[i]
FetchFirstPage(att, html, writeOk) ==
    /\ pc = "iterating"
    /\ attempted' = Append(attempted, departments[i].encodedName)
    /\ UNCHANGED <<store, script, runs, yearKey, retryFailed, departments, fatal, loadErrors,
                   toFix, updated, firstPass, ledger0,
                   opts, job, net, parse>>
    /\ LET res == fetchPage(att)
           recs == parseSalaryTable(html.rows, yearKey)
       IN IF ~res.ok
          THEN /\ DeptFailed(res.err, writeOk)
               /\ ResetDept
               /\ UNCHANGED <<totalInserted, totalSkipped>>
          ELSE IF parseTotalPages(html) >= 2
          THEN /\ pc' = "pages"
               /\ page' = 2
               /\ totalPages' = parseTotalPages(html)
               /\ allRecords' = recs
               /\ b' = 0
               /\ inserted' = 0
               /\ UNCHANGED <<ledger, i, totalInserted, totalSkipped, succeededEncoded,
                              exitCode, failed, warnings>>
          ELSE IF recs # <<>>
          THEN /\ pc' = "loading"
               /\ page' = 2
               /\ totalPages' = 1
               /\ allRecords' = recs
               /\ b' = 0
               /\ inserted' = 0
               /\ UNCHANGED <<ledger, i, totalInserted, totalSkipped, succeededEncoded,
                              exitCode, failed, warnings>>
          ELSE /\ DeptSucceeded(recs, 0)
               /\ ResetDept

\* a page loop that, when a request fails, loads the pages it has
FetchNextPageKeepsPages(att, html, writeOk) ==
    /\ pc = "pages"
    /\ UNCHANGED <<store, script, runs, yearKey, retryFailed, departments, fatal, loadErrors,
                   attempted, toFix, updated, firstPass, ledger0,
                   opts, job, net, parse>>
    /\ LET res == fetchPage(att)
           recs == IF res.ok THEN allRecords \o parseSalaryTable(html.rows, yearKey)
                   ELSE allRecords
       IN IF res.ok /\ page + 1 <= totalPages
          THEN /\ page' = page + 1
               /\ allRecords' = recs
               /\ UNCHANGED <<pc, ledger, i, totalPages, b, inserted, totalInserted,
                              totalSkipped, succeededEncoded, exitCode, failed, warnings>>
          ELSE IF recs # <<>>
          THEN /\ pc' = "loading"
               /\ page' = page + 1
               /\ allRecords' = recs
               /\ UNCHANGED <<ledger, i, totalPages, b, inserted, totalInserted,
                              totalSkipped, succeededEncoded, exitCode, failed, warnings>>
          ELSE /\ DeptSucceeded(recs, 0)
               /\ ResetDept

\* loop body, page loop: page 2..totalPages of departments[i]
FetchNextPage(att, html, writeOk) ==
    /\ pc = "pages"
    /\ UNCHANGED <<store, script, runs, yearKey, retryFailed, departments, fatal, loadErrors,
                   attempted, toFix, updated, firstPass, ledger0,
                   opts, job, net, parse>>
    /\ LET res == fetchPage(att)
           recs == allRecords \o parseSalaryTable(html.rows, yearKey)
       IN IF ~res.ok
          THEN /\ DeptFailed(res.err, writeOk)
               /\ ResetDept
               /\ UNCHANGED <<totalInserted, totalSkipped>>
          ELSE IF page + 1 <= totalPages
          THEN /\ page' = page + 1
               /\ allRecords' = recs
               /\ UNCHANGED <<pc, ledger, i, totalPages, b, inserted, totalInserted,
                              totalSkipped, succeededEncoded, exitCode, failed, warnings>>
          ELSE IF recs # <<>>
          THEN /\ pc' = "loading"
               /\ page' = page + 1
               /\ allRecords' = recs
               /\ UNCHANGED <<ledger, i, totalPages, b, inserted, totalInserted,
                              totalSkipped, succeededEncoded, exitCode, failed, warnings>>
          ELSE /\ DeptSucceeded(recs, 0)
               /\ ResetDept

\* loop body, batch loop: one INSERT ... ON CONFLICT DO NOTHING statement
HtmlInsertBatch(dbOk, writeOk) ==
    /\ pc = "loading"
    /\ script = "html"
    /\ UNCHANGED <<script, runs, yearKey, retryFailed, departments, fatal, attempted,
                   toFix, updated, firstPass, ledger0,
                   opts, job, net, parse>>
    /\ LET res == InsertBatch(store, Slice(allRecords, b, b + BATCH))
           err == QueryError(dbOk, res)
       IN IF err # "none"
          THEN /\ loadErrors' = Append(loadErrors, err)
               /\ store' = store
               /\ DeptFailed(err, writeOk)
               /\ ResetDept
               /\ UNCHANGED <<totalInserted, totalSkipped>>
          ELSE /\ store' = res.store
               /\ loadErrors' = loadErrors
               /\ IF b + BATCH < Len(allRecords)
                  THEN /\ b' = b + BATCH
                       /\ inserted' = inserted + res.rowCount
                       /\ UNCHANGED <<pc, ledger, i, page, totalPages, allRecords, totalInserted,
                                      totalSkipped, succeededEncoded, exitCode, failed, warnings>>
                  ELSE /\ DeptSucceeded(allRecords, inserted + res.rowCount)
                       /\ ResetDept

HtmlNext ==
    \/ \E yk \in YearKeys : \E opt \in HtmlModes : \E att \in Attempts :
         \E rosterPage \in RosterPages : HtmlListing(yk, opt, att, rosterPage)
    \/ \E att \in Attempts : \E html \in FirstPages :
         \E writeOk \in (IF fetchPage(att).ok THEN {TRUE} ELSE BOOLEAN) :
           FetchFirstPage(att, html, writeOk)
    \/ \E att \in Attempts : \E html \in NextPages :
         \E writeOk \in (IF fetchPage(att).ok THEN {TRUE} ELSE BOOLEAN) :
           FetchNextPage(att, html, writeOk)
    \/ \E dbOk \in BOOLEAN : \E writeOk \in (IF dbOk THEN {TRUE} ELSE BOOLEAN) :
         HtmlInsertBatch(dbOk, writeOk)

\* --------------------------------------------------- import-from-pdf.js
\* the rows the selected parser yields for a document
PdfDocs == {<<RowA, RowT, RowA2>>, <<RowT>>}

\* FILE and URL as given, and what the source answers: a FILE that exists, a
\* FILE that does not, a URL, neither (with the default URL answering or not)
PdfSources == {[file |-> "present", url |-> "none", httpOk |-> TRUE],
               [file |-> "missing", url |-> "given", httpOk |-> TRUE],
               [file |-> "none", url |-> "given", httpOk |-> TRUE],
               [file |-> "none", url |-> "none", httpOk |-> TRUE],
               [file |-> "none", url |-> "none", httpOk |-> FALSE]}

\* main: the URL option, process.env.URL || DEFAULT_PDF_URL
UrlOf(source) == IF source.url = "given" THEN "URL" ELSE "DEFAULT_PDF_URL"

\* a source check that takes every FILE to exist
SourceOkAnyFile(source) == IF source.file = "none" THEN source.httpOk ELSE TRUE

\* main: fs.existsSync(resolved) for a FILE, res.ok for a URL
SourceOk(source) == IF source.file = "none" THEN source.httpOk ELSE source.file = "present"

\* a --dry-run flag that is not looked at
DryRunIgnored(dryRun) == FALSE

\* main: if (dryRun) { ...; process.exit(0) }
DryRunExits(dryRun) == dryRun

\* main up to the first query: source, parse, LIMIT, --dry-run
PdfStart(yk, limit, clearFirst, dryRun, source, doc) ==
    /\ CanStart
    /\ runs' = runs + 1
    /\ script' = "pdf"
    /\ yearKey' = yk
    /\ retryFailed' = FALSE
    /\ departments' = <<>>
    /\ i' = 1
    /\ page' = 1
    /\ totalPages' = 1
    /\ b' = 0
    /\ inserted' = 0
    /\ ResetHistory
    /\ totalInserted' = 0
    /\ totalSkipped' = 0
    /\ succeededEncoded' = {}
    /\ UNCHANGED <<store, ledger, toFix, updated, firstPass>>
    /\ ledger0' = ledger
    /\ UNCHANGED <<job, net, parse>>
    /\ opts' = [dryRun |-> dryRun, clear |-> clearFirst, file |-> source.file,
                url |-> source.url,
                fetched |-> IF source.file = "none" THEN UrlOf(source) ELSE "none",
                answer |-> IF source.file # "none" THEN "none"
                           ELSE IF source.httpOk THEN "ok" ELSE "HTTP 404"]
    /\ LET records == parseSalaryTable(doc, yk)
           toProcess == IF limit > 0 THEN Slice(records, 0, limit) ELSE records
       IN IF ~SourceOk(source)
          THEN pc' = "done" /\ exitCode' = 1 /\ fatal' = TRUE /\ allRecords' = <<>>
          ELSE IF DryRunExits(dryRun)
          THEN pc' = "done" /\ exitCode' = 0 /\ fatal' = FALSE /\ allRecords' = toProcess
          ELSE /\ fatal' = FALSE
               /\ allRecords' = toProcess
               /\ IF clearFirst THEN pc' = "clearing" /\ exitCode' = -1
                  ELSE IF toProcess # <<>> THEN pc' = "loading" /\ exitCode' = -1
                  ELSE pc' = "done" /\ exitCode' = 0

\* CLEAR=1: DELETE FROM salary_records
PdfClear(dbOk) ==
    /\ pc = "clearing"
    /\ UNCHANGED <<ledger, script, runs, yearKey, retryFailed, departments, i, page, totalPages,
                   allRecords, b, inserted, totalInserted, totalSkipped, succeededEncoded,
                   toFix, updated, attempted, failed, loadErrors, warnings, firstPass, ledger0,
                   opts, job, net, parse>>
    /\ IF ~dbOk
       THEN store' = store /\ pc' = "done" /\ exitCode' = 1 /\ fatal' = TRUE
       ELSE /\ store' = EmptyBag
            /\ fatal' = fatal
            /\ IF allRecords # <<>> THEN pc' = "loading" /\ exitCode' = exitCode
               ELSE pc' = "done" /\ exitCode' = 0

\* a batch loop that catches the error of a statement and goes on
PdfInsertBatchContinues(dbOk) ==
    /\ pc = "loading"
    /\ script = "pdf"
    /\ UNCHANGED <<ledger, script, runs, yearKey, retryFailed, departments, i, page, totalPages,
                   allRecords, inserted, succeededEncoded, toFix, updated, attempted, failed,
                   warnings, firstPass, ledger0,
                   opts, job, net, parse>>
    /\ LET batch == Slice(allRecords, b, b + BATCH)
           res == InsertBatch(store, batch)
           err == QueryError(dbOk, res)
       IN /\ store' = IF err # "none" THEN store ELSE res.store
          /\ loadErrors' = IF err # "none" THEN Append(loadErrors, err) ELSE loadErrors
          /\ b' = b + BATCH
          /\ totalInserted' = totalInserted + (IF err # "none" THEN 0 ELSE res.rowCount)
          /\ totalSkipped' = totalSkipped + (IF err # "none" THEN 0 ELSE Len(batch) - res.rowCount)
          /\ fatal' = fatal
          /\ IF b + BATCH < Len(allRecords) THEN pc' = pc /\ exitCode' = exitCode
             ELSE pc' = "done" /\ exitCode' = 0

\* batch loop: one INSERT ... ON CONFLICT DO NOTHING statement
PdfInsertBatch(dbOk) ==
    /\ pc = "loading"
    /\ script = "pdf"
    /\ UNCHANGED <<ledger, script, runs, yearKey, retryFailed, departments, i, page, totalPages,
                   allRecords, inserted, succeededEncoded, toFix, updated, attempted, failed,
                   warnings, firstPass, ledger0,
                   opts, job, net, parse>>
    /\ LET batch == Slice(allRecords, b, b + BATCH)
           res == InsertBatch(store, batch)
           err == QueryError(dbOk, res)
       IN IF err # "none"
          THEN /\ store' = store
               /\ pc' = "done"
               /\ exitCode' = 1
               /\ fatal' = TRUE
               /\ loadErrors' = Append(loadErrors, err)
               /\ UNCHANGED <<b, totalInserted, totalSkipped>>
          ELSE /\ store' = res.store
               /\ b' = b + BATCH
               /\ totalInserted' = totalInserted + res.rowCount
               /\ totalSkipped' = totalSkipped + (Len(batch) - res.rowCount)
               /\ UNCHANGED <<fatal, loadErrors>>
               /\ IF b + BATCH < Len(allRecords) THEN pc' = pc /\ exitCode' = exitCode
                  ELSE pc' = "done" /\ exitCode' = 0

PdfNext ==
    \/ \E yk \in YearKeys : \E limit \in {0, 1} : \E clearFirst \in BOOLEAN :
         \E dryRun \in BOOLEAN : \E source \in PdfSources : \E doc \in PdfDocs :
           PdfStart(yk, limit, clearFirst, dryRun, source, doc)
    \/ \E dbOk \in BOOLEAN : PdfClear(dbOk)
    \/ \E dbOk \in BOOLEAN : PdfInsertBatch(dbOk)

\* ----------------------------------------------- fix-title-department.js
\* position of a name in ORDER BY
NameRank(nm) == CASE nm = "" -> 0 [] nm = "Aaron" -> 1 [] nm = "Smith" -> 2 [] OTHER -> 3

\* ORDER BY year_key, last_name, first_name
OrderedBefore(x, y) ==
    \/ x.year_key < y.year_key
    \/ x.year_key = y.year_key /\ NameRank(x.last_name) < NameRank(y.last_name)
    \/ x.year_key = y.year_key /\ x.last_name = y.last_name
         /\ NameRank(x.first_name) <= NameRank(y.first_name)

\* the result sets the SELECT may return: the rows with a non-empty
\* department, each copy once, in an order the ORDER BY allows
Selected(st) ==
    LET rows == {x \in BagToSet(st) : x.department # <<>>}
        n == Cardinality(rows)
    IN {q \in [1..n -> rows] :
          /\ \A k \in 1..n : \A m \in 1..n : k # m => q[k] # q[m]
          /\ \A k \in 1..n : \A m \in 1..n : k < m => OrderedBefore(q[k], q[m])}

\* main up to the UPDATE loop: SELECT, the looksLikeTitle filter, --dry-run
FixStart(dryRun, rows) ==
    /\ CanStart
    /\ rows \in Selected(store)
    /\ runs' = runs + 1
    /\ script' = "fix"
    /\ yearKey' = 0
    /\ retryFailed' = FALSE
    /\ departments' = <<>>
    /\ i' = 1
    /\ ResetDept
    /\ ResetHistory
    /\ totalInserted' = 0
    /\ totalSkipped' = 0
    /\ succeededEncoded' = {}
    /\ fatal' = FALSE
    /\ updated' = 0
    /\ UNCHANGED <<store, ledger, firstPass>>
    /\ ledger0' = ledger
    /\ opts' = [NoOpts EXCEPT !.dryRun = dryRun]
    /\ UNCHANGED <<job, net, parse>>
    /\ LET leaked(row) == looksLikeTitle(row.department)
           found == SelectSeq(rows, leaked)
       IN IF found = <<>> \/ dryRun
          THEN toFix' = <<>> /\ pc' = "done" /\ exitCode' = 0
          ELSE toFix' = found /\ pc' = "fixing" /\ exitCode' = -1

\* UPDATE salary_records SET title = $1, department = $2 WHERE id = $3;
\* the unique index rejects the statement when the new key is taken
FixUpdate ==
    /\ pc = "fixing"
    /\ UNCHANGED <<ledger, script, runs, yearKey, retryFailed, departments, i, page, totalPages,
                   allRecords, b, inserted, totalInserted, totalSkipped, succeededEncoded,
                   attempted, failed, loadErrors, warnings, firstPass, ledger0,
                   opts, job, net, parse>>
    /\ LET row == Head(toFix)
           fixed == Repaired(row)
           others == store (-) SetToBag({row})
       IN IF HasKey(others, fixed)
          THEN /\ store' = store
               /\ pc' = "done"
               /\ exitCode' = 1
               /\ fatal' = TRUE
               /\ UNCHANGED <<toFix, updated>>
          ELSE /\ store' = others (+) SetToBag({fixed})
               /\ toFix' = Tail(toFix)
               /\ updated' = updated + 1
               /\ fatal' = fatal
               /\ IF Tail(toFix) = <<>> THEN pc' = "done" /\ exitCode' = 0
                  ELSE pc' = pc /\ exitCode' = exitCode

FixNext ==
    \/ \E dryRun \in BOOLEAN : \E rows \in Selected(store) : FixStart(dryRun, rows)
    \/ FixUpdate

\* PDF imports alone
SpecPdf == Init /\ [][PdfNext]_vars

Next == HtmlNext \/ PdfNext \/ FixNext

\* ------------------------------------------------- a followed repair pass
\* the words of the departments tried: the organizational words of
\* ORG_INDICATORS, words of the title patterns, and one other word
ProbeWords == {"department", "office", "center", "centre", "program", "admin", "services",
               "division", "institute", "lab", "laboratory",
               "professor", "scientist", "assoc", "prof", "vp", "director", "of", "history"}

RECURSIVE SeqsUpTo(_, _)
SeqsUpTo(S, n) ==
    IF n = 0 THEN {<<>>}
    ELSE LET shorter == SeqsUpTo(S, n - 1)
         IN shorter \cup {Append(q, w) : q \in {r \in shorter : Len(r) = n - 1}, w \in S}

ProbeStrings == SeqsUpTo(ProbeWords, MaxWords)

\* a stored row with the given department column
ProbeRow(dept) == [RowOf(RowA, 0) EXCEPT !.department = dept]

\* tables for the repair pass: a row with a department to try, alone, next to
\* a row holding a title in its department, and next to that row and the row
\* its repair would give
FixStores ==
    {SetToBag(S \cup {ProbeRow(dept)}) :
        dept \in ProbeStrings,
        S \in {{}, {RowOf(RowT, 0)}, {RowOf(RowT, 0), Repaired(RowOf(RowT, 0))}}}

InitFix ==
    /\ job \in {[kind |-> "fix", store0 |-> st] : st \in FixStores}
    /\ store = job.store0
    /\ ledger = <<>>
    /\ Idle

\* the one repair pass that is followed
FixFollowed ==
    \/ runs = 0 /\ \E dryRun \in BOOLEAN : \E rows \in Selected(store) : FixStart(dryRun, rows)
    \/ FixUpdate

SpecFix == InitFix /\ [][FixFollowed]_vars

Spec == Init /\ [][Next]_vars

\* ------------------------------------------------------------ repeated load
\* the same candidate records loaded twice in succession: a load is the batch
\* loop of the PDF import, or of one department of the umsalary import
CandidateRows == {<<RowA>>, <<RowA, RowT>>, <<RowA, RowT, RowA2>>,
                  <<RowA2, RowA, RowA, RowT>>}

PriorStores == InitialStores \cup {SetToBag({RowOf(RowA2, 0)})}

\* the state at the top of the batch loop, first pass
InitLoad ==
    /\ store \in PriorStores
    /\ ledger = <<>>
    /\ pc = "loading"
    /\ script \in {"html", "pdf"}
    /\ runs = 1
    /\ yearKey \in YearKeys
    /\ retryFailed = FALSE
    /\ departments = IF script = "html" THEN <<DeptHistory>> ELSE <<>>
    /\ i = 1
    /\ page = IF script = "html" THEN 2 ELSE 1
    /\ totalPages = 1
    /\ allRecords \in {parseSalaryTable(rows, yearKey) : rows \in CandidateRows}
    /\ b = 0
    /\ inserted = 0
    /\ totalInserted = 0
    /\ totalSkipped = 0
    /\ succeededEncoded = {}
    /\ toFix = <<>>
    /\ updated = 0
    /\ exitCode = -1
    /\ attempted = IF script = "html" THEN <<DeptHistory.encodedName>> ELSE <<>>
    /\ failed = <<>>
    /\ fatal = FALSE
    /\ loadErrors = <<>>
    /\ warnings = 0
    /\ ledger0 = <<>>
    /\ opts = NoOpts
    /\ job = NoJob
    /\ net = NetOff
    /\ parse = NoParse
    /\ firstPass = [pass |-> 1, R |-> allRecords, store |-> EmptyBag, inserted |-> 0, skipped |-> 0]

\* the same import executed again on the same source, up to its batch loop
LoadAgain ==
    /\ pc = "done"
    /\ firstPass.pass = 1
    /\ ledger0' = ledger
    /\ UNCHANGED <<opts, job, net, parse>>
    /\ firstPass' = [pass |-> 2, R |-> firstPass.R, store |-> store,
                     inserted |-> totalInserted, skipped |-> totalSkipped]
    /\ pc' = "loading"
    /\ runs' = runs + 1
    /\ i' = 1
    /\ page' = IF script = "html" THEN 2 ELSE 1
    /\ totalPages' = 1
    /\ allRecords' = firstPass.R
    /\ b' = 0
    /\ inserted' = 0
    /\ totalInserted' = 0
    /\ totalSkipped' = 0
    /\ succeededEncoded' = {}
    /\ exitCode' = -1
    /\ attempted' = IF script = "html" THEN <<DeptHistory.encodedName>> ELSE <<>>
    /\ UNCHANGED <<store, ledger, script, yearKey, retryFailed, departments, toFix, updated,
                   failed, fatal, loadErrors, warnings>>

NextLoad ==
    \/ HtmlInsertBatch(TRUE, TRUE)
    \/ PdfInsertBatch(TRUE)
    \/ LoadAgain

SpecLoad == InitLoad /\ [][NextLoad]_vars

\* ------------------------------------- the requests of an umsalary import
RosterHtml(anchors) == [anchors |-> anchors, marker |-> -1, rows |-> <<>>]

DeptHtml(f) == [anchors |-> <<>>, marker |-> f.marker, rows |-> f.rows]

\* the pages the site may serve for dept_list.php (unit 0) and for page
\* 1, 2, ... of a department
PagesAt(unit, pg) ==
    IF unit = 0 THEN {RosterHtml(r) : r \in RosterPages}
    ELSE IF pg = 1 THEN {DeptHtml(f) : f \in FirstPages} \cup {[NoHtml EXCEPT !.marker = 3]}
    ELSE {DeptHtml(f) : f \in NextPages}

Answers(unit, pg) ==
    {[ok |-> FALSE, err |-> e, html |-> NoHtml] : e \in FetchErrors}
        \cup {[ok |-> TRUE, err |-> "", html |-> h] : h \in PagesAt(unit, pg)}

\* a fetchPage loop that sleeps after its last attempt as well
BackoffAfterAlways(attempt) == attempt <= RETRIES

\* fetchPage, catch: if (attempt < retries) await sleep(2000)
BackoffAfter(attempt) == attempt < RETRIES

\* fetchPage, for: attempt++; attempt <= retries
MoreAttempts(attempt) == attempt + 1 <= RETRIES

\* a page loop that stops one page early
MorePagesShort(pg, total) == pg + 1 < total

\* main, for (let page = 2; page <= totalPages; page++)
MorePages(pg, total) == pg + 1 <= total

\* a loop body that calls fetchPage without sleeping first
BeginCallNoDelay(n, unit, pg) ==
    [n EXCEPT !.pc = "fetch", !.unit = unit, !.page = pg, !.attempt = 0, !.lastErr = "",
              !.inflight = n.inflight + 1,
              !.trace = <<"request">>, !.outcomes = <<>>,
              !.pages = IF unit = n.unit THEN Append(n.pages, pg) ELSE <<pg>>,
              !.clean = IF unit = n.unit THEN n.clean ELSE TRUE]

\* main: await sleep(delayMs), then fetchPage(url) for page pg of unit
BeginCall(n, unit, pg) ==
    [n EXCEPT !.pc = "delay", !.unit = unit, !.page = pg, !.attempt = 0, !.lastErr = "",
              !.trace = <<"delay">>, !.outcomes = <<>>,
              !.pages = IF unit = n.unit THEN n.pages ELSE <<>>,
              !.clean = IF unit = n.unit THEN n.clean ELSE TRUE]

\* main: the run goes on after a department (or the roster): the next
\* department's first request, or the end of the run
NextUnit(n) ==
    IF n.unit + 1 <= n.units THEN BeginCall(n, n.unit + 1, 1)
    ELSE [n EXCEPT !.pc = "end"]

\* the department is over: what was requested for it
EndUnit(n, ok) ==
    [n EXCEPT !.lastUnit = [unit |-> n.unit, marker |-> n.marker, pages |-> n.pages,
                            clean |-> n.clean, ok |-> ok]]

\* fetchPage returned html to main
Returned(n, html) ==
    LET m == [n EXCEPT !.lastCall = [unit |-> n.unit, page |-> n.page, trace |-> n.trace,
                                     outcomes |-> n.outcomes, ok |-> TRUE, err |-> "",
                                     html |-> html]]
    IN IF m.unit = 0
       THEN NextUnit([m EXCEPT !.units = Len(parseDepartmentList(html.anchors))])
       ELSE LET total == IF m.page = 1 THEN parseTotalPages(html) ELSE m.totalPages
                k == [m EXCEPT !.totalPages = total,
                               !.marker = IF m.page = 1 THEN html.marker ELSE m.marker]
            IN IF MorePages(k.page, total) THEN BeginCall(k, k.unit, k.page + 1)
               ELSE NextUnit(EndUnit(k, TRUE))

\* fetchPage threw lastErr to main
Threw(n) ==
    LET m == [n EXCEPT !.lastCall = [unit |-> n.unit, page |-> n.page, trace |-> n.trace,
                                     outcomes |-> n.outcomes, ok |-> FALSE, err |-> n.lastErr,
                                     html |-> NoHtml]]
    IN IF m.unit = 0 THEN [m EXCEPT !.pc = "end"]
       ELSE NextUnit(EndUnit(m, FALSE))

\* fetchPage: fetch(url, opts) of the attempt
IssueRequest(n) ==
    [n EXCEPT !.pc = "fetch", !.inflight = n.inflight + 1,
              !.trace = Append(n.trace, "request"),
              !.pages = Append(n.pages, n.page)]

\* fetchPage: the loop after a failed attempt, from attempt++ on
AfterFailedAttempt(n) ==
    IF MoreAttempts(n.attempt) THEN IssueRequest([n EXCEPT !.attempt = n.attempt + 1])
    ELSE Threw(n)

\* the requests are followed apart from the table, the log and the scripts
NetFrame ==
    UNCHANGED <<store, ledger, pc, script, runs, yearKey, retryFailed, departments, i, page,
                   totalPages, allRecords, b, inserted, totalInserted, totalSkipped,
                   succeededEncoded, toFix, updated, exitCode, attempted, failed, fatal,
                   loadErrors, warnings, firstPass, ledger0, opts, job, parse>>

\* the followed import starts: main up to await sleep(delayMs)
NetStart ==
    /\ net.pc = "off"
    /\ NetFrame
    /\ net' = BeginCall(NetOff, 0, 1)

\* a sleep is over: delayMs before the first attempt, 2000 ms before a retry
NetTimer ==
    /\ net.pc \in {"delay", "backoff"}
    /\ NetFrame
    /\ net' = IF net.pc = "delay" THEN IssueRequest(net) ELSE AfterFailedAttempt(net)

\* the request in flight is answered
NetSettle(answer) ==
    /\ net.pc = "fetch"
    /\ NetFrame
    /\ LET n == [net EXCEPT !.inflight = net.inflight - 1,
                            !.outcomes = Append(net.outcomes, answer)]
       IN IF answer.ok
          THEN net' = Returned(n, answer.html)
          ELSE LET m == [n EXCEPT !.lastErr = answer.err, !.clean = FALSE]
               IN IF BackoffAfter(m.attempt)
                  THEN net' = [m EXCEPT !.pc = "backoff", !.trace = Append(m.trace, "backoff")]
                  ELSE net' = AfterFailedAttempt(m)

NetNext ==
    \/ NetStart
    \/ NetTimer
    \/ \E answer \in Answers(net.unit, net.page) : NetSettle(answer)

\* one empty table and one empty log are enough to follow the requests
InitFetch == Init /\ store = EmptyBag /\ ledger = <<>>

SpecFetch == InitFetch /\ [][NetNext]_vars

\* ----------------------------------------------- a killed import, run again
\* every attempt of a request answered
AllOk == [k \in 1..(RETRIES + 1) |-> "ok"]

\* what the source serves for the pages after the first
NextPageOf == CHOOSE f \in NextPages : TRUE

\* the inputs of an import that is run, killed and run again: the options,
\* what the source serves (the roster and page 1 of each department, or the
\* rows of the PDF), the failure log and the table before the first run
RerunJobs ==
    {[kind |-> "html", yk |-> yk, opt |-> opt, roster |-> <<Anchor(DeptHistory), Anchor(DeptScientist),
                                                             Anchor(DeptAthletics),
                                                             Anchor(DeptHistory)>>,
      pages |-> pages, limit |-> 0, clearFirst |-> FALSE, doc |-> <<>>,
      ledger0 |-> led, store0 |-> st] :
        yk \in YearKeys, opt \in HtmlModes,
        pages \in [{DeptHistory.encodedName, DeptAthletics.encodedName} -> FirstPages],
        led \in {<<>>, <<Entry(0, DeptHistory.encodedName, DeptHistory.name, "HTTP 500"),
                         Entry(0, DeptAthletics.encodedName, DeptAthletics.name, "HTTP 500")>>},
        st \in {EmptyBag, SetToBag({RowOf(RowA2, 0), RowOf(RowT, 1)})}}
    \cup
    {[kind |-> "pdf", yk |-> yk, opt |-> [retryFailed |-> FALSE, onlyIndices |-> <<>>,
                                          skipDepts |-> 0, limitDepts |-> 0],
      roster |-> <<>>,
      pages |-> [e \in {DeptHistory.encodedName, DeptAthletics.encodedName} |->
                    [marker |-> -1, rows |-> <<>>]],
      limit |-> limit, clearFirst |-> clearFirst, doc |-> doc,
      ledger0 |-> <<>>, store0 |-> st] :
        yk \in YearKeys, limit \in {0, 1}, clearFirst \in BOOLEAN,
        doc \in PdfDocs \cup {<<RowA2, RowA, RowA, RowT>>},
        st \in {EmptyBag, SetToBag({RowOf(RowA2, 0), RowOf(RowT, 1)})}}

InitRerun ==
    /\ job \in RerunJobs
    /\ store = job.store0
    /\ ledger = job.ledger0
    /\ Idle

\* the import started with the job's options on the job's source
RerunStart ==
    \/ /\ job.kind = "html"
       /\ HtmlListing(job.yk, job.opt, AllOk, job.roster)
    \/ /\ job.kind = "pdf"
       /\ PdfStart(job.yk, job.limit, job.clearFirst, FALSE,
                   [file |-> "present", url |-> "none", httpOk |-> TRUE], job.doc)

\* the process is killed while it runs: the statement it was waiting for,
\* if any, was applied by the server or was not; the killed execution is not
\* counted among the runs
Terminate(applied) ==
    /\ pc \in {"iterating", "pages", "loading", "clearing"}
    /\ pc' = "idle"
    /\ runs' = runs - 1
    /\ store' = IF applied /\ pc = "loading"
                THEN InsertBatch(store, Slice(allRecords, b, b + BATCH)).store
                ELSE IF applied /\ pc = "clearing" THEN EmptyBag
                ELSE store
    /\ firstPass' = [pass |-> 1, R |-> <<>>, store |-> store', inserted |-> 0, skipped |-> 0]
    /\ departments' = <<>>
    /\ i' = 1
    /\ ResetDept
    /\ totalInserted' = 0
    /\ totalSkipped' = 0
    /\ succeededEncoded' = {}
    /\ UNCHANGED <<ledger, script, yearKey, retryFailed, toFix, updated, exitCode, attempted,
                   failed, fatal, loadErrors, warnings, ledger0, opts, job, net, parse>>

NextRerun ==
    \/ RerunStart
    \/ FetchFirstPage(AllOk, job.pages[departments[i].encodedName], TRUE)
    \/ FetchNextPage(AllOk, NextPageOf, TRUE)
    \/ HtmlInsertBatch(TRUE, TRUE)
    \/ PdfClear(TRUE)
    \/ PdfInsertBatch(TRUE)
    \/ \E applied \in BOOLEAN : Terminate(applied)

SpecRerun == InitRerun /\ [][NextRerun]_vars

\* ------------------------------------------- the working set of an import
\* parseInt(s.trim(), 10) of the items ONLY_INDICES is tried with
parseInt(s) ==
    CASE s = "0" -> [finite |-> TRUE, n |-> 0]
      [] s = "1" -> [finite |-> TRUE, n |-> 1]
      [] s = "2" -> [finite |-> TRUE, n |-> 2]
      [] s = "3" -> [finite |-> TRUE, n |-> 3]
      [] s = "5" -> [finite |-> TRUE, n |-> 5]
      [] OTHER -> [finite |-> FALSE, n |-> 0]

\* getOnlyIndices: the items of ONLY_INDICES (<<>> when it is not given)
\* parsed, and those that are finite and >= 1 kept; null is <<>>
getOnlyIndices(items) ==
    LET kept(s) == parseInt(s).finite /\ parseInt(s).n >= 1
        valid == SelectSeq(items, kept)
    IN [k \in 1..Len(valid) |-> parseInt(valid[k]).n]

\* the options as given on the command line or in the environment
GivenOptions ==
    [retryFailed : BOOLEAN,
     onlyIndices : {<<>>, <<"2", "3", "1">>, <<"1", "1">>, <<"5">>, <<"0", "2">>, <<"0">>, <<"x">>},
     skipDepts : {0, 1},
     limitDepts : {0, 1}]

\* main: the options read with getOpt and getOnlyIndices
OptionsOf(given) == [given EXCEPT !.onlyIndices = getOnlyIndices(given.onlyIndices)]

SelectJobs ==
    {[kind |-> "select", yk |-> yk, given |-> given, roster |-> roster, ledger0 |-> led] :
        yk \in YearKeys, given \in GivenOptions, roster \in RosterPages, led \in InitialLedgers}

InitSelect ==
    /\ job \in SelectJobs
    /\ store = EmptyBag
    /\ ledger = job.ledger0
    /\ Idle

\* the import with the job's options, every request answered; each
\* department has one page
NextSelect ==
    \/ HtmlListing(job.yk, OptionsOf(job.given), AllOk, job.roster)
    \/ FetchFirstPage(AllOk, [marker |-> -1, rows |-> <<RowA, RowNoName>>], TRUE)
    \/ HtmlInsertBatch(TRUE, TRUE)

SpecSelect == InitSelect /\ [][NextSelect]_vars

\* ------------------------------------------------------- a roster, parsed
\* anchors a roster page is made of: two spellings of one department,
\* another department, a job title, an anchor without text and an anchor
\* whose href has no Dept= value
ProbeAnchors ==
    {[text |-> "link", dept |-> "LSA+History"],
     [text |-> "link", dept |-> "LSA%20History"],
     [text |-> "link", dept |-> "Athletics"],
     [text |-> "link", dept |-> "Research+Scientist"],
     [text |-> "", dept |-> "Athletics"],
     [text |-> "link", dept |-> ""]}

RosterJobs ==
    {[kind |-> "roster", yk |-> 0, roster |-> anchors] :
        anchors \in SeqsUpTo(ProbeAnchors, MaxAnchors)}

InitRoster ==
    /\ job \in RosterJobs
    /\ store = EmptyBag
    /\ ledger = <<>>
    /\ Idle

\* an import of the whole roster, every request answered; each department
\* has one page
NextRoster ==
    \/ HtmlListing(job.yk, [retryFailed |-> FALSE, onlyIndices |-> <<>>,
                            skipDepts |-> 0, limitDepts |-> 0], AllOk, job.roster)
    \/ FetchFirstPage(AllOk, [marker |-> -1, rows |-> <<RowA>>], TRUE)
    \/ HtmlInsertBatch(TRUE, TRUE)

SpecRoster == InitRoster /\ [][NextRoster]_vars

\* ------------------------------------------------ followed parses
\* The texts the parsers are given, character by character: the two layouts
\* of one logical record, texts of several chunks, and pages of result rows.

\* the logical records: campus, name, title, appointing department, the
\* annual rate, its basis, the fraction and the general-fund amount
ProbeRecords ==
    [campus : CampusTokens,
     lastName : {<<"S", "m", "i", "t", "h">>, <<"O", " ", "N", "e", "i", "l">>},
     firstName : {<<"J", "o", "h", "n">>, <<"M", "a", "r", "y", " ", "A", "n", "n">>},
     title : {<<"P", "R", "O", "F", "E", "S", "S", "O", "R">>},
     department : {<<"L", "S", "A", " ", "H", "i", "s", "t", "o", "r", "y">>, <<"O", "U", "A", " ", "A", "d", "m", "i", "s", "s", "i", "o", "n", "s">>, <<"A", "t", "h", "l", "e", "t", "i", "c", "s">>},
     ftr : {<<"6", "2", ",", "2", "3", "2", ".", "0", "0">>},
     basis : {<<"1", "2">>, <<"9">>, <<"8">>},
     fraction : {<<"0", ".", "5", "0">>},
     gf : {<<"0", ".", "0", "0">>, <<"1", ",", "5", "0", "0", ".", "2", "5">>}]

\* the 2021-2023 layout: the columns of a row one after another
RenderCompact(rec) ==
    rec.campus \o <<" ">> \o rec.lastName \o <<",", " ">> \o rec.firstName \o <<" ">> \o rec.title
        \o <<" ">> \o rec.department \o <<" ">> \o rec.ftr \o <<" ">> \o rec.basis \o <<"-", "M", "o", "n", "t", "h">>
        \o rec.fraction \o <<" ">> \o rec.gf \o <<"\n">>

\* the 2025 layout: a column per line, the basis on the line of the rate
\* (format A) or on its own (format B)
RenderLines(rec, sameLine) ==
    rec.campus \o <<"\n">> \o rec.lastName \o <<",", " ">> \o rec.firstName \o <<"\n">> \o rec.title
        \o <<"\n">> \o rec.department \o <<"\n">> \o rec.ftr
        \o (IF sameLine THEN <<" ", " ", " ">> ELSE <<"\n">>) \o rec.basis \o <<"-", "M", "o", "n", "t", "h", "\n">>
        \o rec.fraction \o <<"\n">> \o rec.gf \o <<"\n">>

\* main: /(UM_ANN-ARBOR|UM_FLINT|UM_DEARBOR)\s*\n[^\n]*,[^\n]*\n/.test(text)
NameLineFollows(text) ==
    \E m \in {CampusMatches(text)[k] : k \in 1..Len(CampusMatches(text))} :
        \E q \in (m.index + Len(m.campus))..Len(text) :
            /\ text[q] = "\n"
            /\ \A k \in (m.index + Len(m.campus))..q : IsSpace(text[k])
            /\ LET line == From(text, q + 1)
                   stop == IndexOf(line, <<"\n">>)
               IN stop # 0 /\ IndexOf(Before(line, stop), <<",">>) # 0

\* main: isLineByLine, FORMAT being "line", "compact" or not set
isLineByLine(formatEnv, text) ==
    formatEnv = "line" \/ (formatEnv # "compact" /\ NameLineFollows(text))

\* main, the compact branch after its loop
CompactCounts(text, rawRecords, parsed) ==
    [format |-> "compact", chunks |-> Len(CampusMatches(text)), raw |-> Len(rawRecords),
     records |-> parsed.records, parseFail |-> parsed.parseFail]

\* main, the compact branch
CompactOutcome(text) ==
    CompactCounts(text, splitIntoRecords(text), parseChunks(splitIntoRecords(text)))

\* main, the line-by-line branch: nothing is counted
LineOutcome(text) ==
    [format |-> "line", chunks |-> Len(CampusMatches(text)), raw |-> 0,
     records |-> parseLineByLineRecords(text), parseFail |-> 0]

\* chunks of a compact text: a row, a row without its numbers, a page
\* footer, a row whose name column is empty, and rows in the 2025 layout,
\* one with nothing before the comma
ProbeChunks ==
    {<<"U", "M", "_", "F", "L", "I", "N", "T", " ", "S", "m", "i", "t", "h", ",", " ", "J", "o", "h", "n", " ", "P", "R", "O", "F", "E", "S", "S", "O", "R", " ", "1", ".", "0", "0", " ", "9", "-", "M", "o", "n", "t", "h", "1", ".", "0", "0", " ", "2", ".", "0", "0">>,
     <<"U", "M", "_", "D", "E", "A", "R", "B", "O", "R", " ", "D", "o", "e", ",", " ", "J", "a", "n", "e", " ", "C", "O", "A", "C", "H", " ", "A", "t", "h", "l", "e", "t", "i", "c", "s">>,
     <<"U", "M", "_", "F", "L", "I", "N", "T", " ", "P", "a", "g", "e", " ", "2">>,
     <<"U", "M", "_", "A", "N", "N", "-", "A", "R", "B", "O", "R", " ", ",", " ", "A", "n", "n", " ", "C", "O", "A", "C", "H", " ", "1", ".", "0", "0", " ", "9", "-", "M", "o", "n", "t", "h", "1", ".", "0", "0", " ", "2", ".", "0", "0">>,
     <<"U", "M", "_", "F", "L", "I", "N", "T", "\n", "R", "o", "e", ",", " ", "A", "l", "\n", "C", "O", "A", "C", "H", "\n", "A", "t", "h", "l", "e", "t", "i", "c", "s", "\n", "1", ".", "0", "0", "\n", "9", "-", "M", "o", "n", "t", "h", "\n", "1", ".", "0", "0", "\n", "2", ".", "0", "0">>,
     <<"U", "M", "_", "D", "E", "A", "R", "B", "O", "R", "\n", ",", " ", "A", "n", "n", "\n", "C", "O", "A", "C", "H", "\n", "A", "t", "h", "l", "e", "t", "i", "c", "s", "\n", "1", "1", "3", ",", "0", "0", "0", ".", "0", "0", " ", "9", "-", "M", "o", "n", "t", "h", "\n", "0", ".", "5", "0", "\n", "5", ".", "5", "0">>}

MaxChunks == 2

RECURSIVE Concat(_)
Concat(parts) == IF parts = <<>> THEN <<>> ELSE Head(parts) \o <<"\n">> \o Concat(Tail(parts))

\* pages of result rows: tr elements as [ths, text, cells]
HeaderRow == [ths |-> 5, text |-> <<"N", "a", "m", "e", " ", "T", "i", "t", "l", "e", " ", "D", "e", "p", "a", "r", "t", "m", "e", "n", "t", " ", "F", "T", "R", " ", "G", "F">>, cells |-> <<>>]

ProbeNames == {<<"S", "m", "i", "t", "h", ",", " ", "J", "o", "h", "n">>, <<" ", "S", "m", "i", "t", "h", " ", ",", " ", "J", "o", "h", "n", ",", " ", "J", "r", " ">>, <<",", " ", "J", "o", "h", "n">>, <<"S", "m", "i", "t", "h">>, <<"S", "m", "i", "t", "h", ",", "J", "o", "h", "n", " ", "Q">>}

ProbeAmounts == {<<"$", "6", "2", ",", "2", "3", "2", ".", "5", "0">>, <<"n", "/", "a">>, <<>>, <<"1", "2", "a", "b", "c">>}

DataRows ==
    {[ths |-> 0, text |-> <<>>, cells |-> <<n, <<" ", "P", "R", "O", "F", " ">>, <<"L", "S", "A", " ", "H", "i", "s", "t", "o", "r", "y">>, a, g>>] :
        n \in ProbeNames, a \in ProbeAmounts, g \in {<<"0", ".", "0", "0">>, <<"$", "1", ",", "0", "0", "0">>}}
    \cup {[ths |-> 0, text |-> <<>>, cells |-> <<<<"S", "m", "i", "t", "h", ",", " ", "J", "o", "h", "n">>, <<"P", "R", "O", "F">>, <<"H", "i", "s", "t", "o", "r", "y">>, <<"0", ".", "0", "0">>>>],
          [ths |-> 0, text |-> <<>>,
           cells |-> <<<<"R", "o", "e", ",", " ", "A", "l">>, <<"P", "R", "O", "F">>, <<"H", "i", "s", "t", "o", "r", "y">>, <<"0", ".", "0", "0">>, <<"$", "1", ",", "0", "0", "0">>, <<"e", "x", "t", "r", "a">>>>]}

ParseJobs ==
    {[kind |-> "record", rec |-> rec, sameLine |-> s] : rec \in ProbeRecords, s \in BOOLEAN}
    \cup {[kind |-> "text", formatEnv |-> f, text |-> Concat(chunks)] :
             f \in {"none", "line", "compact"}, chunks \in SeqsUpTo(ProbeChunks, MaxChunks)}
    \cup {[kind |-> "page", tables |-> <<<<row>>, <<HeaderRow, row>>>>] : row \in DataRows}

InitParse ==
    /\ job \in ParseJobs
    /\ store = EmptyBag
    /\ ledger = <<>>
    /\ Idle

ParseFrame ==
    UNCHANGED <<store, ledger, pc, script, runs, yearKey, retryFailed, departments, i, page,
                   totalPages, allRecords, b, inserted, totalInserted, totalSkipped,
                   succeededEncoded, toFix, updated, exitCode, attempted, failed, fatal,
                   loadErrors, warnings, firstPass, ledger0, opts, job, net>>

\* the compact parser on the compact layout of the record
ParseCompactLayout ==
    /\ job.kind = "record"
    /\ "compact" \notin parse.done
    /\ parse' = [parse EXCEPT !.done = @ \cup {"compact"},
                              !.compact = CompactOutcome(RenderCompact(job.rec))]
    /\ ParseFrame

\* the line-by-line parser on the line layout of the record
ParseLineLayout ==
    /\ job.kind = "record"
    /\ "lines" \notin parse.done
    /\ parse' = [parse EXCEPT !.done = @ \cup {"lines"},
                              !.lines = LineOutcome(RenderLines(job.rec, job.sameLine))]
    /\ ParseFrame

\* main of the PDF import from the extracted text to the records
PdfParse ==
    /\ job.kind = "text"
    /\ parse.done = {}
    /\ parse' = IF isLineByLine(job.formatEnv, job.text)
                THEN [parse EXCEPT !.done = {"lines"}, !.lines = LineOutcome(job.text)]
                ELSE [parse EXCEPT !.done = {"compact"}, !.compact = CompactOutcome(job.text)]
    /\ ParseFrame

\* parseSalaryTable on a fetched page
HtmlParse ==
    /\ job.kind = "page"
    /\ parse.done = {}
    /\ parse' = [parse EXCEPT !.done = {"html"}, !.html = parseSalaryTables(job.tables)]
    /\ ParseFrame

NextParse ==
    \/ ParseCompactLayout
    \/ ParseLineLayout
    \/ PdfParse
    \/ HtmlParse

SpecParse == InitParse /\ [][NextParse]_vars

\* ------------------------------------------------ a name, classified twice
\* One string as the roster parser meets it (the decoded name of an anchor)
\* and as the repair pass meets it (the department column of a stored row).
InitHeuristic ==
    /\ job \in {[kind |-> "name", name |-> name] : name \in ProbeStrings}
    /\ store = EmptyBag
    /\ ledger = <<>>
    /\ Idle

\* parseDepartmentList: if (looksLikeJobTitle(encodedName)) continue
RosterClassifies ==
    /\ job.kind = "name"
    /\ "roster" \notin parse.done
    /\ parse' = [parse EXCEPT !.done = @ \cup {"roster"},
                              !.skipped = looksLikeJobTitle(job.name)]
    /\ ParseFrame

\* fix-title-department.js, main: if (!looksLikeTitle(row.department)) continue
RepairClassifies ==
    /\ job.kind = "name"
    /\ "repair" \notin parse.done
    /\ parse' = [parse EXCEPT !.done = @ \cup {"repair"},
                              !.leaked = looksLikeTitle(job.name)]
    /\ ParseFrame

NextHeuristic ==
    \/ RosterClassifies
    \/ RepairClassifies

SpecHeuristic == InitHeuristic /\ [][NextHeuristic]_vars

\* ------------------------------------------------ one department, page by page
\* a third person
RowB == [last_name |-> "Jones", first_name |-> "Bea", title |-> <<"professor">>,
         department |-> <<"athletics">>, ftr |-> 400, gf |-> 0]

\* every attempt of a request fails
AllFail == [k \in 1..(RETRIES + 1) |-> "HTTP 500"]

\* the most pages a followed department has
MaxPages == 3

\* what the source serves for the one department of the roster: its first
\* page, the page served for every later page number, and how the attempts
\* of the request for each page number end
PagesJobs ==
    {[kind |-> "pages", first |-> first, next |-> next, att |-> att] :
        first \in {[marker |-> 2, rows |-> <<RowA, RowT>>],
                   [marker |-> -1, rows |-> <<RowA, RowT, RowB>>],
                   [marker |-> MaxPages, rows |-> <<RowA>>]},
        next \in {[marker |-> 2, rows |-> <<RowB>>],
                  [marker |-> 2, rows |-> <<RowB, RowA2>>]},
        att \in [1..MaxPages -> {AllOk, AllFail}]}

InitPages ==
    /\ job \in PagesJobs
    /\ store = EmptyBag
    /\ ledger = <<>>
    /\ Idle

\* one import of a roster of one department
NextPagesRun ==
    \/ runs = 0 /\ HtmlListing(0, [retryFailed |-> FALSE, onlyIndices |-> <<>>,
                                   skipDepts |-> 0, limitDepts |-> 0],
                               AllOk, <<Anchor(DeptAthletics)>>)
    \/ \E writeOk \in BOOLEAN : FetchFirstPage(job.att[1], job.first, writeOk)
    \/ \E writeOk \in BOOLEAN : FetchNextPage(job.att[page], job.next, writeOk)
    \/ \E dbOk \in BOOLEAN : \E writeOk \in BOOLEAN : HtmlInsertBatch(dbOk, writeOk)

SpecPages == InitPages /\ [][NextPagesRun]_vars

\* ------------------------------------------------ a series of imports
\* the number of imports of a followed series
MaxSeries == 3

\* what an import of the series is started with and meets: RETRY_FAILED,
\* whether the request for the department's page is answered, and whether
\* import-failures.log can be appended to
SeriesRuns == [retry : BOOLEAN, answered : BOOLEAN, writeOk : BOOLEAN]

RECURSIVE SeqsOfLen(_, _)
SeqsOfLen(S, n) ==
    IF n = 0 THEN {<<>>} ELSE {Append(q, x) : q \in SeqsOfLen(S, n - 1), x \in S}

\* imports of year 0 on a roster of one department, one after the other,
\* the log holding at first lines of other keys only
SeriesJobs ==
    {[kind |-> "series", plan |-> plan, roster |-> <<Anchor(DeptAthletics)>>, ledger0 |-> led] :
        plan \in SeqsOfLen(SeriesRuns, MaxSeries),
        led \in {<<>>, <<JunkLine, Entry(1, DeptAthletics.encodedName, DeptAthletics.name, "HTTP 500"),
                         Entry(0, DeptHistory.encodedName, DeptHistory.name, "connection")>>}}

InitSeries ==
    /\ job \in SeriesJobs
    /\ store = EmptyBag
    /\ ledger = job.ledger0
    /\ Idle

\* the import that is running, or is to start
ThisRun == job.plan[runs]
NextRun == job.plan[runs + 1]

NextSeries ==
    \/ /\ runs < Len(job.plan)
       /\ HtmlListing(0, [retryFailed |-> NextRun.retry, onlyIndices |-> <<>>,
                          skipDepts |-> 0, limitDepts |-> 0], AllOk, job.roster)
    \/ FetchFirstPage(IF ThisRun.answered THEN AllOk ELSE AllFail,
                      [marker |-> -1, rows |-> <<RowA>>], ThisRun.writeOk)
    \/ HtmlInsertBatch(TRUE, TRUE)

SpecSeries == InitSeries /\ [][NextSeries]_vars

\* ------------------------------------------------ a series of retry runs
\* a department the source no longer lists
DeptGone == [name |-> <<"gone">>, encodedName |-> "Gone"]

\* retry runs of year 0, one after the other, on the same roster; in each
\* the requests for the departments' pages are all answered or all fail
RetryJobs ==
    {[kind |-> "retries", plan |-> plan, roster |-> roster, ledger0 |-> led] :
        plan \in SeqsOfLen([retry : {TRUE}, answered : BOOLEAN, writeOk : {TRUE}], MaxSeries),
        roster \in {<<Anchor(DeptHistory), Anchor(DeptScientist), Anchor(DeptAthletics)>>,
                    <<Anchor(DeptAthletics)>>,
                    <<>>},
        led \in {<<Entry(0, DeptHistory.encodedName, DeptHistory.name, "HTTP 500"),
                   Entry(0, DeptScientist.encodedName, DeptScientist.name, "HTTP 500"),
                   Entry(0, DeptGone.encodedName, DeptGone.name, "HTTP 500"),
                   Entry(1, DeptAthletics.encodedName, DeptAthletics.name, "HTTP 500")>>,
                 <<Entry(0, DeptAthletics.encodedName, DeptAthletics.name, "HTTP 500"),
                   Entry(0, DeptGone.encodedName, DeptGone.name, "connection")>>,
                 <<Entry(0, DeptScientist.encodedName, DeptScientist.name, "connection")>>,
                 <<>>}}

InitRetries ==
    /\ job \in RetryJobs
    /\ store = EmptyBag
    /\ ledger = job.ledger0
    /\ Idle

NextRetries ==
    \/ /\ runs < Len(job.plan)
       /\ HtmlListing(0, [retryFailed |-> TRUE, onlyIndices |-> <<>>,
                          skipDepts |-> 0, limitDepts |-> 0], AllOk, job.roster)
    \/ FetchFirstPage(IF ThisRun.answered THEN AllOk ELSE AllFail,
                      [marker |-> -1, rows |-> <<RowA>>], TRUE)
    \/ HtmlInsertBatch(TRUE, TRUE)

SpecRetries == InitRetries /\ [][NextRetries]_vars

\* ------------------------------------------------ loads and repair passes
\* another row whose department column holds a job title
RowU == [last_name |-> "Young", first_name |-> "Uma", title |-> <<"uma">>,
         department |-> <<"assoc", "professor">>, ftr |-> 500, gf |-> 0]

\* imports of the same page of one department and repair passes, one after
\* the other, on a table that is empty at first
ReloadJobs ==
    {[kind |-> "reload", plan |-> plan, rows |-> rows] :
        plan \in SeqsOfLen({"load", "fix"}, MaxSeries + 1),
        rows \in SeqsUpTo({RowA, RowT, RowU}, 2)}

InitReload ==
    /\ job \in ReloadJobs
    /\ store = EmptyBag
    /\ ledger = <<>>
    /\ Idle

NextReload ==
    \/ /\ runs < Len(job.plan)
       /\ NextRun = "load"
       /\ HtmlListing(0, [retryFailed |-> FALSE, onlyIndices |-> <<>>,
                          skipDepts |-> 0, limitDepts |-> 0], AllOk, <<Anchor(DeptAthletics)>>)
    \/ FetchFirstPage(AllOk, [marker |-> -1, rows |-> job.rows], TRUE)
    \/ HtmlInsertBatch(TRUE, TRUE)
    \/ /\ runs < Len(job.plan)
       /\ NextRun = "fix"
       /\ \E rows \in Selected(store) : FixStart(FALSE, rows)
    \/ FixUpdate

SpecReload == InitReload /\ [][NextReload]_vars

\* C1: loading the same candidate records a second time, right after the
\* first load, reports inserted = 0 and skipped = |R|, raises no error and
\* leaves the table as the first pass left it
RepeatedLoadIdempotent ==
    firstPass.pass = 2 =>
        /\ store = firstPass.store
        /\ ~fatal /\ loadErrors = <<>> /\ failed = <<>>
        /\ pc = "done" => /\ totalInserted = 0
                          /\ totalSkipped = Len(firstPass.R)
                          /\ exitCode = 0

\* two fresh records: {inserted: 2, skipped: 0}, then {inserted: 0, skipped: 2}
RepeatedLoadWitness ==
    /\ firstPass.pass = 2
    /\ pc = "done"
    /\ firstPass.inserted = 2
    /\ firstPass.skipped = 0
    /\ totalInserted = 0
    /\ totalSkipped = 2

\* ------------------------------------------------------ store uniqueness
\* an INSERT statement of either import is about to run
InsertStep == pc = "loading"

\* the rows already stored are left as they are, and a row is added only
\* under a key the table did not hold
ExistingRowsKept ==
    /\ \A x \in BagToSet(store) : CopiesIn(x, store') = CopiesIn(x, store)
    /\ \A y \in BagToSet(store') : CopiesIn(y, store') > CopiesIn(y, store) => ~HasKey(store, y)

\* C2: through umsalary imports, PDF imports (with or without CLEAR) and
\* repair passes no two stored rows have the same (last_name, first_name,
\* title, department, year_key), and inserting a tuple that is already stored
\* changes nothing and is not rejected
StoreKeysUnique ==
    /\ [](UniqueKeys(store) /\ "duplicate key" \notin Range(loadErrors))
    /\ [][InsertStep => ExistingRowsKept]_vars

\* an import has met stored tuples and inserted new ones next to them
StoreKeysUniqueWitness ==
    /\ script \in {"html", "pdf"}
    /\ pc = "done"
    /\ exitCode = 0
    /\ totalSkipped > 0
    /\ totalInserted > 0
    /\ Cardinality(BagToSet(store)) >= 3

\* ------------------------------------------------------ department loop
\* an umsalary import is between its roster fetch and its exit
HtmlRunning == script = "html" /\ pc \in {"iterating", "pages", "loading"}

\* the departments tried so far are the first ones of the working set, each once
AttemptedInOrder ==
    /\ Len(attempted) <= Len(departments)
    /\ \A k \in 1..Len(attempted) : attempted[k] = departments[k].encodedName
    /\ pc = "iterating" => Len(attempted) = i - 1 /\ i <= Len(departments)
    /\ pc \in {"pages", "loading"} => Len(attempted) = i
    /\ pc = "done" => Len(attempted) = Len(departments)

\* what is left of the run: departments after this one, then the phase of
\* this one, its pages to fetch and its records to insert
Remaining ==
    <<Len(departments) - i,
      CASE pc = "iterating" -> 2 [] pc = "pages" -> 1 [] OTHER -> 0,
      totalPages - page,
      Len(allRecords) - b>>

\* lexicographic order on the tuples of Remaining, whose components have a floor
LexLess(x, y) ==
    \E k \in 1..4 : x[k] < y[k] /\ \A m \in 1..(k - 1) : x[m] = y[m]

\* C3: in an umsalary import a failing department never ends the run: the
\* departments of the working set are attempted one by one, each exactly once
\* and in working-set order, and the run reaches its end after the last one
\* however many departments failed before (a running import can always take
\* its next step, and every step leaves less of the run to do)
DepartmentFailureNeverAborts ==
    /\ [](script = "html" => AttemptedInOrder)
    /\ [](HtmlRunning => ENABLED HtmlNext)
    /\ [][HtmlRunning => LexLess(Remaining', Remaining)]_vars

\* the first department of the working set failed, a later one was loaded
DepartmentFailureWitness ==
    /\ script = "html"
    /\ pc = "done"
    /\ Len(departments) >= 2
    /\ failed # <<>>
    /\ failed[1].encodedName = departments[1].encodedName
    /\ departments[Len(departments)].encodedName \in succeededEncoded

\* ----------------------------------------------------------- load errors
\* C4 as stated: an error of an INSERT statement ends the run with a failing
\* exit, in the umsalary import as in the PDF import
LoadErrorFatal ==
    loadErrors # <<>> => pc = "done" /\ exitCode = 1 /\ fatal

\* an INSERT statement of the running import threw
InsertThrew == Len(loadErrors') > Len(loadErrors)

\* the rejected statement changes no row, and in the umsalary import the error
\* is the department's failure: logged with its message, next department
LoadErrorStep ==
    /\ store' = store
    /\ script = "html" =>
         /\ failed' = Append(failed, Entry(yearKey, departments[i].encodedName,
                                           departments[i].name, loadErrors'[Len(loadErrors')]))
         /\ i' = i + 1
         /\ pc' \in {"iterating", "done"}
         /\ pc' = "done" => i' > Len(departments)

\* C4, amended: an error of an INSERT statement leaves the batches committed
\* before it applied; in the PDF import it is fatal (no later batch is loaded,
\* the exit signals failure); in the umsalary import it fails only the
\* department being loaded, which is logged, and the run goes on with the next
\* department and does not signal failure at its exit
LoadErrorHandling ==
    /\ [](script = "pdf" /\ loadErrors # <<>> =>
            pc = "done" /\ exitCode = 1 /\ fatal /\ Len(loadErrors) = 1)
    /\ [](script = "html" /\ loadErrors # <<>> =>
            ~fatal /\ exitCode # 1 /\ Len(loadErrors) <= Len(failed))
    /\ [][InsertThrew => LoadErrorStep]_vars
    /\ [][(pc \in {"pages", "loading"}) => (store \sqsubseteq (store'))]_vars

\* an umsalary import met an INSERT error at one department, loaded another
\* and exited with 0
LoadErrorWitness ==
    /\ script = "html"
    /\ pc = "done"
    /\ exitCode = 0
    /\ loadErrors # <<>>
    /\ succeededEncoded # {}
    /\ totalInserted > 0

\* ------------------------------------------------------------ failure log
\* line k of the log names department enc for year yk
IsEntryFor(line, yk, enc) ==
    line.kind = "entry" /\ line.yearKey = yk /\ line.encodedName = enc

\* the lines of the log at start that the run may drop when it ends
Removable(line) ==
    /\ retryFailed
    /\ line.kind = "entry"
    /\ line.yearKey = yearKey
    /\ line.encodedName \in succeededEncoded

NotRemovable(line) == ~Removable(line)

\* what the run has to leave of the log it found
Kept0 ==
    IF script = "html" /\ retryFailed /\ pc = "done"
    THEN SelectSeq(ledger0, NotRemovable)
    ELSE ledger0

\* the lines after those
Appended == SubSeq(ledger, Len(Kept0) + 1, Len(ledger))

RetryScopedByYear ==
    (script = "html" /\ retryFailed) =>
        /\ \A k \in 1..Len(departments) : \E m \in 1..Len(ledger0) :
               IsEntryFor(ledger0[m], yearKey, departments[k].encodedName)
        /\ \A k \in 1..Len(attempted) : \E m \in 1..Len(ledger0) :
               IsEntryFor(ledger0[m], yearKey, attempted[k])

\* a retry run processed a department while another department, logged for
\* the other year only, stayed out
RetryScopedWitness ==
    /\ script = "html" /\ retryFailed /\ pc = "done"
    /\ attempted # <<>>
    /\ \E m \in 1..Len(ledger0) :
         /\ ledger0[m].kind = "entry"
         /\ ledger0[m].yearKey # yearKey
         /\ ledger0[m].encodedName \notin Range(attempted)
         /\ \A k \in 1..Len(ledger0) :
              ~IsEntryFor(ledger0[k], yearKey, ledger0[m].encodedName)

\* C7: only a successful retry of its own key removes a log line: a run
\* without --retry-failed keeps every line it found, in place, and a retry run
\* for year Y keeps the entries of other years, the entries of departments
\* that did not succeed in it and the lines that are not JSON; the PDF import
\* and the repair pass do not touch the log
LedgerRemovalOnlyOnRetrySuccess ==
    /\ script = "html" => IsPrefix(Kept0, ledger)
    /\ (script = "html" /\ ~(retryFailed /\ pc = "done")) => IsPrefix(ledger0, ledger)
    /\ script \in {"pdf", "fix"} => ledger = ledger0

\* a retry run dropped the entries of the department it loaded and kept the
\* line that is not JSON and the entry of the other year
LedgerRemovalWitness ==
    /\ script = "html" /\ retryFailed /\ pc = "done"
    /\ Len(Kept0) < Len(ledger0)
    /\ \E k \in 1..Len(ledger) : ledger[k].kind = "junk"
    /\ \E k \in 1..Len(ledger) : \E d \in succeededEncoded :
         ledger[k].kind = "entry" /\ ledger[k].yearKey # yearKey /\ ledger[k].encodedName = d

\* sub is whole with some elements left out
RECURSIVE IsSubseq(_, _)
IsSubseq(sub, whole) ==
    IF sub = <<>> THEN TRUE
    ELSE IF whole = <<>> THEN FALSE
    ELSE IF Head(sub) = Head(whole) THEN IsSubseq(Tail(sub), Tail(whole))
    ELSE IsSubseq(sub, Tail(whole))

RosterFailureAborts ==
    /\ [](script = "html" /\ fatal =>
            /\ pc = "done"
            /\ exitCode = 1
            /\ departments = <<>>
            /\ attempted = <<>>
            /\ totalInserted = 0
            /\ ledger = ledger0)
    /\ [][script' = "html" /\ fatal' => store' = store]_vars

\* the roster fetch failed over a table and a log that were not empty
RosterFailureWitness ==
    /\ script = "html"
    /\ fatal
    /\ pc = "done"
    /\ exitCode = 1
    /\ ledger # <<>>
    /\ store # EmptyBag

\* C10: an import exits with a failing status exactly when a fatal condition
\* occurred; a run whose departments failed softly, in any number, and were
\* logged exits with success
ExitSignalsOnlyFatal ==
    (script \in {"html", "pdf"} /\ pc = "done") =>
        /\ exitCode \in {0, 1}
        /\ exitCode = 1 <=> fatal
        /\ (script = "html" /\ ~fatal) => exitCode = 0

\* every department of a run of two failed and was logged; exit status 0
ExitSignalsWitness ==
    /\ script = "html"
    /\ pc = "done"
    /\ ~fatal
    /\ Len(failed) >= 2
    /\ Len(failed) = Len(departments)
    /\ Len(Appended) = Len(failed)
    /\ exitCode = 0

\* ---------------------------------------------------------------- fetcher
\* the delay and the k requests of a fetchPage call that ended at its k-th
\* attempt: sleep(delayMs), request, then sleep(2000) and request k - 1 times
CallTrace(k) ==
    [j \in 1..(2 * k) |-> IF j = 1 THEN "delay" ELSE IF j % 2 = 0 THEN "request" ELSE "backoff"]

\* what the attempts of an ended call were answered with, as fetchPage's att
AttemptsLike(outcomes) ==
    {att \in [1..(RETRIES + 1) -> {"ok"} \cup FetchErrors] :
        \A j \in 1..Len(outcomes) :
            att[j] = IF outcomes[j].ok THEN "ok" ELSE outcomes[j].err}

\* C11: fetchPage makes at most retries + 1 attempts for a URL (3 by default);
\* it returns the text of the first attempt that succeeds and attempts nothing
\* after it; it throws, the last attempt's error, only when every attempt
\* failed; it sleeps 2000 ms between two attempts and not after the last one
FetcherAttemptsBounded ==
    /\ Len(net.outcomes) <= RETRIES + 1
    /\ net.attempt <= RETRIES
    /\ net.lastCall # NoCall =>
         LET c == net.lastCall
             k == Len(c.outcomes)
         IN /\ k >= 1 /\ k <= RETRIES + 1
            /\ \A j \in 1..(k - 1) : ~c.outcomes[j].ok
            /\ c.ok <=> c.outcomes[k].ok
            /\ c.ok => c.html = c.outcomes[k].html
            /\ ~c.ok => k = RETRIES + 1 /\ c.err = c.outcomes[k].err
            /\ c.trace = CallTrace(k)
            /\ \A att \in AttemptsLike(c.outcomes) :
                 /\ fetchPage(att).ok = c.ok
                 /\ fetchPage(att).attempts = k
                 /\ ~c.ok => fetchPage(att).err = c.err

\* a call that failed three times, its last error not its first
FetcherWitness ==
    /\ net.lastCall # NoCall
    /\ ~net.lastCall.ok
    /\ Len(net.lastCall.outcomes) = 3
    /\ net.lastCall.outcomes[1].err # net.lastCall.outcomes[3].err
    /\ net.lastCall.err = "ECONNRESET"

\* ------------------------------------------------------------- pagination
\* 1, 2, ..., n
UpTo(n) == [k \in 1..n |-> k]

\* C12: when page 1 of a department says "Page 1 of N" and every request is
\* answered at its first attempt, exactly N pages are fetched for the
\* department, 1, 2, ..., N in this order; without the marker, or with N < 1,
\* exactly one page is fetched
PaginationCount ==
    (net.lastUnit.unit >= 1 /\ net.lastUnit.clean) =>
        /\ net.lastUnit.ok
        /\ net.lastUnit.pages =
             UpTo(IF net.lastUnit.marker < 1 THEN 1 ELSE net.lastUnit.marker)

\* a department whose first page said "Page 1 of 3"
PaginationWitness ==
    /\ net.lastUnit.unit >= 1
    /\ net.lastUnit.clean
    /\ net.lastUnit.marker = 3
    /\ net.lastUnit.pages = <<1, 2, 3>>

\* ---------------------------------------------------------------- spacing
\* every request of a call comes right after a sleep: delayMs before the
\* first attempt, the backoff before a retry
Spaced(trace) ==
    \A j \in 1..Len(trace) :
        trace[j] = "request" =>
            /\ j > 1
            /\ trace[j - 1] = IF \E m \in 1..(j - 1) : trace[m] = "request"
                              THEN "backoff" ELSE "delay"

\* C13: the requests of an umsalary import go out one at a time, and between
\* two consecutive requests a sleep takes place: delayMs before the first
\* attempt of every roster or department page request, the backoff of
\* fetchPage between the attempts of one request
RequestsSpaced ==
    /\ net.inflight \in {0, 1}
    /\ net.inflight = 1 <=> net.pc = "fetch"
    /\ net.pc # "off" => net.trace # <<>> /\ net.trace[1] = "delay"
    /\ Spaced(net.trace)
    /\ Spaced(net.lastCall.trace)

\* page 2 of a department was requested twice, after page 1 and the roster
RequestsSpacedWitness ==
    /\ net.pc = "fetch"
    /\ net.unit = 1
    /\ net.page = 2
    /\ net.trace = <<"delay", "request", "backoff", "request">>
    /\ net.lastCall.page = 1

\* ---------------------------------------------------- whitelist precedence
\* the organizational-unit keywords, as whole words
OrgKeywords == {"department", "office", "center", "centre", "program", "admin", "services",
                "division", "institute", "lab", "laboratory"}

HasOrgKeyword(str) == \E k \in 1..Len(str) : str[k] \in OrgKeywords

\* C14: a department value that contains one of the organizational-unit
\* keywords (department, office, center, centre, program, admin, services,
\* division, institute, lab, laboratory) is never classified as a job title
\* by the repair pass, whatever job-title pattern it also matches: a stored
\* record with such a department is never put on the list of records to fix
\* and stays in the table as it was
WhitelistPrecedence ==
    job.kind = "fix" =>
        \A x \in BagToSet(job.store0) :
            HasOrgKeyword(x.department) =>
                /\ ~looksLikeTitle(x.department)
                /\ \A k \in 1..Len(toFix) : toFix[k] # x
                /\ CopiesIn(x, store) = CopiesIn(x, job.store0)

\* a pass that rewrote a record and kept one whose department holds both a
\* keyword and a job-title pattern
WhitelistWitness ==
    /\ job.kind = "fix"
    /\ script = "fix"
    /\ pc = "done"
    /\ ~opts.dryRun
    /\ updated >= 1
    /\ \E x \in BagToSet(store) :
          /\ x.department = <<"laboratory", "scientist">>
          /\ TITLE_LIKE_PATTERNS(x.department)
          /\ x \in BagToSet(job.store0)

\* ------------------------------------------------------- the repair's effect
\* a stored record whose non-empty department matches a job-title pattern
\* and no organizational-unit keyword
Leaked(x) ==
    /\ x.department # <<>>
    /\ TITLE_LIKE_PATTERNS(x.department)
    /\ ~HasOrgKeyword(x.department)

RECURSIVE SumCopies(_, _)
SumCopies(S, st) ==
    IF S = {} THEN 0
    ELSE LET x == CHOOSE y \in S : TRUE
         IN CopiesIn(x, st) + SumCopies(S \ {x}, st)

\* the table with every leaked record rewritten and nothing else touched
RepairAll(st) ==
    LET rows == BagToSet(st)
        img(x) == IF Leaked(x) THEN Repaired(x) ELSE x
    IN [y \in {img(x) : x \in rows} |-> SumCopies({x \in rows : img(x) = y}, st)]

\* C15: when the standalone repair pass has ended, the table is the one it
\* started with, with exactly the records whose non-empty department matches
\* a job-title pattern and no organizational-unit keyword rewritten (title =
\* old department, department = ''), every other field and record unchanged,
\* none created or deleted; with --dry-run the table is unchanged
RepairRewritesExactly ==
    (job.kind = "fix" /\ script = "fix" /\ pc = "done") =>
        store = IF opts.dryRun THEN job.store0 ELSE RepairAll(job.store0)

\* ------------------------------------------------------------ safe re-run
RECURSIVE Repeat(_, _)
Repeat(s, n) == IF n <= 0 THEN <<>> ELSE s \o Repeat(s, n - 1)

\* the records of all pages of a department, in page order
DeptRecords(j, dept) ==
    LET first == j.pages[dept.encodedName]
    IN parseSalaryTable(first.rows, j.yk)
         \o Repeat(parseSalaryTable(NextPageOf.rows, j.yk), parseTotalPages(first) - 1)

RECURSIVE RecordsOf(_, _)
RecordsOf(j, depts) ==
    IF depts = <<>> THEN <<>>
    ELSE DeptRecords(j, Head(depts)) \o RecordsOf(j, Tail(depts))

\* the table an execution of the job that nothing interrupts leaves: every
\* record of the working set's departments, or of the document, inserted in
\* order into the table it found (emptied first under CLEAR)
Uninterrupted(j) ==
    LET parsed == parseSalaryTable(j.doc, j.yk)
        records == IF j.kind = "pdf"
                   THEN IF j.limit > 0 THEN Slice(parsed, 0, j.limit) ELSE parsed
                   ELSE RecordsOf(j, SelectDepartments(parseDepartmentList(j.roster),
                                                       j.ledger0, j.yk, j.opt))
        base == IF j.clearFirst THEN EmptyBag ELSE j.store0
    IN InsertRows([store |-> base, rowCount |-> 0, error |-> FALSE], records).store

\* C16: an import that is killed at any point, between two statements or
\* while one is in flight, any number of times, and then executed again with
\* the same options on the same source until it completes, leaves the table
\* an uninterrupted execution leaves: no record twice, none missing
RerunSafe ==
    (job.kind \in {"html", "pdf"} /\ pc = "done") => store = Uninterrupted(job)

\* a completed execution after one that was killed with a part of the
\* records in the table
RerunWitness ==
    /\ job.kind \in {"html", "pdf"}
    /\ pc = "done"
    /\ firstPass.pass = 1
    /\ firstPass.store # job.store0
    /\ firstPass.store # store
    /\ store = Uninterrupted(job)

\* -------------------------------------------------------- working-set choice
\* the entries of the parsed roster that the failure log selects for a year
LedgerSelected(depts, led, yk) ==
    LET logged(dept) == \E k \in 1..Len(led) :
                            /\ led[k].kind = "entry"
                            /\ led[k].yearKey = yk
                            /\ led[k].encodedName = dept.encodedName
    IN SelectSeq(depts, logged)

\* the entries at the given 1-based indices, in the order given, indices
\* that are not a position of the roster dropped
AtIndices(depts, items) ==
    LET inRange(s) == parseInt(s).finite /\ parseInt(s).n \in 1..Len(depts)
        valid == SelectSeq(items, inRange)
    IN [k \in 1..Len(valid) |-> depts[parseInt(valid[k]).n]]

\* the roster without its first skip entries, then cut to limit entries
SkipThenLimit(depts, skip, limit) ==
    LET rest == SubSeq(depts, skip + 1, Len(depts))
    IN IF limit = 0 THEN rest ELSE SubSeq(rest, 1, Min2(limit, Len(rest)))

WorkingSet(j) ==
    LET depts == parseDepartmentList(j.roster)
    IN IF j.given.retryFailed THEN LedgerSelected(depts, j.ledger0, j.yk)
       ELSE IF j.given.onlyIndices # <<>> THEN AtIndices(depts, j.given.onlyIndices)
       ELSE SkipThenLimit(depts, j.given.skipDepts, j.given.limitDepts)

EncodedNames(depts) == [k \in 1..Len(depts) |-> depts[k].encodedName]

\* C17: the working set of an umsalary import is, in retry mode, the roster
\* entries the failure log selects for the run's year, whatever the index,
\* skip and limit options; else, when an index subset is given, the roster
\* entries at those 1-based indices in the order given, out-of-range indices
\* dropped, whatever skip and limit; else the roster without its first SKIP
\* entries, cut to LIMIT entries (0: no limit).  The departments are
\* processed in exactly this order.
WorkingSetAsSpecified ==
    (job.kind = "select" /\ script = "html") =>
        /\ departments = WorkingSet(job)
        /\ IsPrefix(attempted, EncodedNames(WorkingSet(job)))
        /\ pc = "done" => attempted = EncodedNames(WorkingSet(job))

\* ---------------------------------------------------------- roster parser
\* the positions of the anchors that have a text and an identifier, and the
\* first of them with a given decoded identifier
WithTextAndId(anchors) ==
    {k \in 1..Len(anchors) : anchors[k].text # "" /\ anchors[k].dept # ""}

FirstSeen(anchors, id) ==
    CHOOSE k \in WithTextAndId(anchors) :
        /\ decodeURIComponent(anchors[k].dept) = id
        /\ \A m \in WithTextAndId(anchors) :
              decodeURIComponent(anchors[m].dept) = id => k <= m

\* C18: the list parseDepartmentList returns for a roster page has exactly
\* one entry for every distinct decoded identifier, other than a job title,
\* among the anchors that have a text and an identifier, the entries come in
\* the order in which their identifiers are first seen, no entry's name
\* matches the job-title heuristic, and an anchor without text or without
\* identifier gives no entry
RosterParsed ==
    (job.kind = "roster" /\ script = "html") =>
        LET anchors == job.roster
            ids == {decodeURIComponent(anchors[k].dept) : k \in WithTextAndId(anchors)}
            n == Len(departments)
        IN /\ \A id \in ids : ~looksLikeJobTitle(id) =>
                 Cardinality({k \in 1..n : departments[k].name = id}) = 1
           /\ \A k \in 1..n : departments[k].name \in ids
           /\ \A k \in 1..n : ~looksLikeJobTitle(departments[k].name)
           /\ \A k \in 1..n : \A m \in 1..n :
                 k < m => FirstSeen(anchors, departments[k].name)
                            < FirstSeen(anchors, departments[m].name)

\* a page where the only anchor of Athletics that counts comes after one
\* without text, a repeated department and a job title
RosterParsedWitness ==
    /\ job.kind = "roster"
    /\ script = "html"
    /\ pc = "done"
    /\ job.roster = <<[text |-> "", dept |-> "Athletics"],
                      [text |-> "link", dept |-> "LSA%20History"],
                      [text |-> "link", dept |-> "Athletics"]>>
    /\ departments = <<[name |-> <<"lsa", "history">>, encodedName |-> "LSA%20History"],
                       [name |-> <<"athletics">>, encodedName |-> "Athletics"]>>
    /\ attempted = <<"LSA%20History", "Athletics">>

\* ------------------------------------------------------------ PDF dry run
\* the step that starts a PDF import
PdfStarts == script' = "pdf" /\ runs' = runs + 1

\* C19: a PDF import with --dry-run writes nothing to the table: its one
\* step leaves the table as it was, with or without CLEAR, and the run is
\* over after it, so no DELETE and no INSERT of this run follows
DryRunWritesNothing ==
    /\ [][(PdfStarts /\ opts'.dryRun) => (store' = store /\ pc' = "done")]_vars
    /\ []((script = "pdf" /\ opts.dryRun) =>
            (pc = "done" /\ totalInserted = 0 /\ loadErrors = <<>>))

\* a dry run with CLEAR of a readable document over a table with rows
DryRunWitness ==
    /\ script = "pdf"
    /\ opts.dryRun
    /\ opts.clear
    /\ pc = "done"
    /\ exitCode = 0
    /\ allRecords # <<>>
    /\ store # EmptyBag

\* ------------------------------------------------------------- PDF source
\* the PDF import could not read its source
SourceFailed(o) == o.file = "missing" \/ o.answer = "HTTP 404"

ParsedRecords ==
    Range(parse.compact.records) \cup Range(parse.lines.records) \cup Range(parse.html)

\* C21: every record a parser produces (the table scraper, the compact
\* parser, the line-by-line parser) has a last name that is not empty.
LastNameNeverEmpty == \A r \in ParsedRecords : r.last_name # <<>>

\* C22: the two PDF parsers agree on the same logical record: the compact
\* parser on its compact layout and the line-by-line parser on its line
\* layout give the same records (last and first name, title, department,
\* campus, campus id, ftr, gf, period_fte).
ParsersAgree ==
    (job.kind = "record" /\ parse.done = {"compact", "lines"})
        => parse.compact.records = parse.lines.records

\* the chunks of the followed text, and those among them main hands to
\* parseRecordChunk
ChunkSet == {Chunks(job.text)[k] : k \in 1..Len(Chunks(job.text))}

CompactParsed == job.kind = "text" /\ "compact" \in parse.done

\* C23 as stated: on the compact path every chunk between campus tokens
\* gives a record or is counted as a parse failure, and none is written to
\* the failure log.
EveryChunkCounted ==
    CompactParsed =>
        /\ Len(parse.compact.records) + parse.compact.parseFail = parse.compact.chunks
        /\ ledger = ledger0

\* C23, amended: a chunk of at most 10 characters is dropped without being
\* counted; the longer chunks give a record or are counted, every one
\* without the numeric tail being counted; the failure log is not written.
LongChunksCounted ==
    CompactParsed =>
        LET long == {k \in 1..Len(Chunks(job.text)) : Len(Chunks(job.text)[k].rest) > 10}
            untailed == {k \in long : ~TAIL_RE(Chunks(job.text)[k].rest).ok}
        IN /\ Len(parse.compact.records) + parse.compact.parseFail = Cardinality(long)
           /\ parse.compact.parseFail >= Cardinality(untailed)
           /\ Len(parse.compact.records) <= Cardinality(long \ untailed)
           /\ ledger = ledger0
           /\ fatal = FALSE

\* a text with a chunk too short to be counted and a longer one without
\* the numeric tail
ShortChunkWitness ==
    /\ CompactParsed
    /\ \E c \in ChunkSet : Len(c.rest) <= 10
    /\ \E c \in ChunkSet : Len(c.rest) > 10 /\ ~TAIL_RE(c.rest).ok
    /\ parse.compact.parseFail = 1

\* the numbers the probe amounts stand for
AmountValue(amount) ==
    CASE amount = <<"6", "2", ",", "2", "3", "2", ".", "0", "0">> -> [whole |-> 62232, frac |-> <<>>]
      [] amount = <<"1", ",", "5", "0", "0", ".", "2", "5">> -> [whole |-> 1500, frac |-> <<"2", "5">>]
      [] amount = <<"0", ".", "0", "0">> -> [whole |-> 0, frac |-> <<>>]
      [] amount = <<"$", "6", "2", ",", "2", "3", "2", ".", "5", "0">> -> [whole |-> 62232, frac |-> <<"5">>]
      [] amount = <<"$", "1", ",", "0", "0", "0">> -> [whole |-> 1000, frac |-> <<>>]
      [] amount = <<"1", "2", "a", "b", "c">> -> [whole |-> 12, frac |-> <<>>]
      [] amount \in {<<"n", "/", "a">>, <<>>} -> [whole |-> 0, frac |-> <<>>]

\* C24: a chunk whose tail is <amount> <8|9|12>-Month <fraction> <amount>
\* gives a record whose ftr is the first amount, whose gf is the last
\* amount and whose period_fte is the basis digits, "Month" and the
\* fraction.
NumericTailRead ==
    (job.kind = "record" /\ "compact" \in parse.done) =>
        /\ Len(parse.compact.records) = 1
        /\ LET r == parse.compact.records[1]
           IN /\ r.ftr = AmountValue(job.rec.ftr)
              /\ r.gf = AmountValue(job.rec.gf)
              /\ r.period_fte = job.rec.basis \o <<"M", "o", "n", "t", "h">> \o job.rec.fraction

\* the tail "62,232.00 12-Month0.50 1,500.25" has been read
NumericTailWitness ==
    /\ job.kind = "record" /\ "compact" \in parse.done
    /\ job.rec.basis = <<"1", "2">> /\ job.rec.gf = <<"1", ",", "5", "0", "0", ".", "2", "5">>
    /\ parse.compact.records[1].period_fte = <<"1", "2", "M", "o", "n", "t", "h", "0", ".", "5", "0">>
    /\ parse.compact.records[1].ftr.whole = 62232

\* the data row of the followed page, after its FTR/GF header row
PageRow == job.tables[2][2].cells

HtmlParsed == job.kind = "page" /\ "html" \in parse.done

\* the text before the first comma and the whole text after it
AtFirstComma(name) ==
    LET commaIdx == IndexOf(name, <<",">>)
    IN IF commaIdx = 0 THEN [last |-> Trim(name), first |-> <<>>]
       ELSE [last |-> Trim(Before(name, commaIdx)), first |-> Trim(From(name, commaIdx + 1))]

\* the name parts of the probe names: the part before the first comma, and
\* the other parts joined by single spaces
NameValue(name) ==
    CASE name = <<"S", "m", "i", "t", "h", ",", " ", "J", "o", "h", "n">> -> [last |-> <<"S", "m", "i", "t", "h">>, first |-> <<"J", "o", "h", "n">>]
      [] name = <<" ", "S", "m", "i", "t", "h", " ", ",", " ", "J", "o", "h", "n", ",", " ", "J", "r", " ">> -> [last |-> <<"S", "m", "i", "t", "h">>, first |-> <<"J", "o", "h", "n", " ", "J", "r">>]
      [] name = <<",", " ", "J", "o", "h", "n">> -> [last |-> <<>>, first |-> <<"J", "o", "h", "n">>]
      [] name = <<"S", "m", "i", "t", "h">> -> [last |-> <<"S", "m", "i", "t", "h">>, first |-> <<>>]
      [] name = <<"S", "m", "i", "t", "h", ",", "J", "o", "h", "n", " ", "Q">> -> [last |-> <<"S", "m", "i", "t", "h">>, first |-> <<"J", "o", "h", "n", " ", "Q">>]
      [] name = <<"R", "o", "e", ",", " ", "A", "l">> -> [last |-> <<"R", "o", "e">>, first |-> <<"A", "l">>]

\* what a data row is to give, the name being read as name says
RowGives(cells, name) ==
    IF Len(cells) < 5 \/ name.last = <<>> THEN <<>>
    ELSE <<[last_name |-> name.last, first_name |-> name.first,
            title |-> Trim(cells[2]), department |-> Trim(cells[3]),
            ftr |-> AmountValue(cells[4]), gf |-> AmountValue(cells[5])]>>

Named(records) ==
    [k \in 1..Len(records) |->
        [last_name |-> records[k].last_name, first_name |-> records[k].first_name,
         title |-> records[k].title, department |-> records[k].department,
         ftr |-> records[k].ftr, gf |-> records[k].gf]]

\* C25 as stated: a data row after the FTR/GF header row gives the record
\* whose last name is the text before the first comma of the name cell and
\* whose first name is the whole text after it, with cells 2 to 5 as
\* title, department, ftr and gf; a row with an empty last name gives none.
RowSplitAtFirstComma ==
    (HtmlParsed /\ Len(PageRow) = 5)
        => Named(parse.html) = RowGives(PageRow, AtFirstComma(PageRow[1]))

\* C25, amended: the name cell is split at every comma, the last name is
\* the first part and the first name the other parts, trimmed and joined
\* by single spaces; rows of five or more cells count, cells are trimmed,
\* and an amount is the decimal number its text starts with after "$" and
\* "," are removed, 0 when there is none.
RowSplitAtEveryComma == HtmlParsed => Named(parse.html) = RowGives(PageRow, NameValue(PageRow[1]))

\* the row of " Smith , John, Jr " has been read
TwoCommaWitness ==
    /\ HtmlParsed
    /\ PageRow[1] = <<" ", "S", "m", "i", "t", "h", " ", ",", " ", "J", "o", "h", "n", ",", " ", "J", "r", " ">> /\ PageRow[4] = <<"$", "6", "2", ",", "2", "3", "2", ".", "5", "0">>
    /\ Len(parse.html) = 1
    /\ parse.html[1].first_name = <<"J", "o", "h", "n", " ", "J", "r">>

\* C26: the roster parser's job-title filter and the repair pass's
\* title-leak detector are one heuristic: the roster parser skips an entry
\* named s exactly when the repair pass takes a department equal to s for a
\* title.
SameHeuristic ==
    (job.kind = "name" /\ parse.done = {"roster", "repair"}) => parse.skipped = parse.leaked

\* the records of pages 1..n of the followed department
RECURSIVE PageRecords(_)
PageRecords(n) ==
    IF n = 0 THEN <<>>
    ELSE IF n = 1 THEN parseSalaryTable(job.first.rows, 0)
    ELSE PageRecords(n - 1) \o parseSalaryTable(job.next.rows, 0)

\* the table after the first k INSERT statements for records R
RECURSIVE LoadedBatches(_, _)
LoadedBatches(R, k) ==
    IF k = 0 THEN EmptyBag
    ELSE InsertBatch(LoadedBatches(R, k - 1), Slice(R, (k - 1) * BATCH, k * BATCH)).store

NumBatches(R) == (Len(R) + BATCH - 1) \div BATCH

\* the request for page p of the followed department fails, those before
\* it do not
FailsAtPage(p) ==
    /\ p <= parseTotalPages(job.first)
    /\ job.att[p] = AllFail
    /\ \A q \in 1..(p - 1) : job.att[q] = AllOk

\* C27: the records of a department are written only after all of its
\* pages were fetched and parsed: while pages are being fetched nothing is
\* written, and when the request for a page fails the department's records
\* (those of its earlier pages too) are not inserted in this run; the INSERT
\* statements start with the records of all pages, and a statement that
\* fails leaves the batches before it in the table.
PagesThenWrites ==
    job.kind = "pages" =>
        LET R == PageRecords(parseTotalPages(job.first))
        IN /\ pc \in {"iterating", "pages"} => store = EmptyBag
           /\ (pc = "done" /\ \E p \in 1..MaxPages : FailsAtPage(p)) =>
                 /\ store = EmptyBag
                 /\ loadErrors = <<>>
                 /\ Len(failed) = 1
           /\ pc = "loading" => allRecords = R /\ store = LoadedBatches(R, b \div BATCH)
           /\ (pc = "done" /\ loadErrors # <<>>) =>
                 \E k \in 0..(NumBatches(R) - 1) : store = LoadedBatches(R, k)
           /\ (pc = "done" /\ runs = 1 /\ failed = <<>>) => store = LoadedBatches(R, NumBatches(R))

\* the request for page 2 failed after page 1 had given records
LaterPageFailedWitness ==
    /\ job.kind = "pages"
    /\ pc = "done"
    /\ FailsAtPage(2)
    /\ parseSalaryTable(job.first.rows, 0) # <<>>
    /\ Len(failed) = 1
    /\ store = EmptyBag

\* --------------------------------------------------------- the log over runs
\* the lines of the log for the followed key (year 0, the one department)
IsKeyLine(line) ==
    line.kind = "entry" /\ line.yearKey = 0 /\ line.encodedName = DeptAthletics.encodedName

KeyLines(led) == SelectSeq(led, IsKeyLine)

OtherLines(led) == SelectSeq(led, LAMBDA line : ~IsKeyLine(line))

\* after the first n imports of the series: the failed attempts of the
\* department since it last succeeded in a retry run, and those of them
\* whose line could be written
RECURSIVE Tally(_)
Tally(n) ==
    IF n = 0 THEN [failures |-> 0, written |-> 0]
    ELSE LET before == Tally(n - 1)
             run == job.plan[n]
         IN IF run.retry /\ before.written = 0 THEN before
            ELSE IF run.answered
            THEN (IF run.retry THEN [failures |-> 0, written |-> 0] ELSE before)
            ELSE [failures |-> before.failures + 1,
                  written |-> before.written + (IF run.writeOk THEN 1 ELSE 0)]

SeriesAtRest == job.kind = "series" /\ pc = "done"

OnRoster == {d.encodedName : d \in Range(parseDepartmentList(job.roster))}

\* a line of the run's year whose department is not on the roster
IsAbsentLine(line) ==
    line.kind = "entry" /\ line.yearKey = 0 /\ line.encodedName \notin OnRoster

\* C29: in retry mode the working set is the roster filtered by the log: a
\* line of the run's year whose encodedName is not on the freshly parsed
\* roster is never attempted and never removed by a retry run, and when the
\* filtered roster is empty the run ends without attempting anything and
\* without writing the log.
RetryFiltersRoster ==
    job.kind = "retries" =>
        /\ \A k \in 1..Len(attempted) : attempted[k] \in OnRoster
        /\ SelectSeq(ledger, IsAbsentLine) = SelectSeq(job.ledger0, IsAbsentLine)
        /\ runs >= 1 =>
              departments = SelectSeq(parseDepartmentList(job.roster),
                                      LAMBDA d : d.encodedName \in readFailedEncodedNames(ledger0, 0))
        /\ (runs >= 1 /\ departments = <<>>) =>
              /\ pc = "done" /\ exitCode = 0
              /\ attempted = <<>>
              /\ ledger = ledger0
              /\ totalInserted = 0 /\ loadErrors = <<>>

\* a retry run removed the line of a department that is on the roster, and
\* the lines of a department that is gone and of a filtered job title are
\* still in the log after every retry run
AbsentLinesStayWitness ==
    /\ job.kind = "retries"
    /\ runs = Len(job.plan) /\ pc = "done"
    /\ Len(ledger) < Len(job.ledger0)
    /\ \E k \in 1..Len(ledger) : ledger[k].encodedName = DeptGone.encodedName
    /\ \E k \in 1..Len(ledger) : ledger[k].encodedName = DeptScientist.encodedName
    /\ departments = <<>>

\* ------------------------------------------------------ reload after repair
\* the records of the followed page, and those the repair pass rewrites
SourceRecords == Range(parseSalaryTable(job.rows, 0))

LeakedRecords == {r \in SourceRecords : r.department # <<>> /\ looksLikeTitle(r.department)}

\* after the first n scripts of the series: whether the source records
\* are in the table unrepaired, and whether their repaired forms are
RECURSIVE Forms(_)
Forms(n) ==
    IF n = 0 THEN [loaded |-> FALSE, unrepaired |-> FALSE, repaired |-> FALSE]
    ELSE LET before == Forms(n - 1)
         IN IF job.plan[n] = "load"
            THEN [before EXCEPT !.loaded = TRUE, !.unrepaired = TRUE]
            ELSE IF before.unrepaired /\ ~before.repaired
            THEN [before EXCEPT !.unrepaired = FALSE, !.repaired = TRUE]
            ELSE before

TableOf(forms) ==
    SetToBag((IF forms.loaded THEN SourceRecords \ LeakedRecords ELSE {})
             \cup (IF forms.unrepaired THEN LeakedRecords ELSE {})
             \cup (IF forms.repaired THEN {Repaired(r) : r \in LeakedRecords} ELSE {}))

\* C30: a load skips only what is in the table as the same tuple: after a
\* repair pass has rewritten a record, loading the same source records
\* again inserts the record once more under its original title and
\* department, so that the table holds the repaired and the unrepaired row;
\* the next repair pass then asks for a tuple that already exists, and
\* leaves both rows.
ReloadReinsertsRepaired ==
    job.kind = "reload" =>
        /\ pc = "done" => store = TableOf(Forms(runs))
        /\ (pc = "done" /\ runs >= 3 /\ SubSeq(job.plan, runs - 2, runs) = <<"load", "fix", "load">>) =>
              \A r \in LeakedRecords :
                  CopiesIn(r, store) = 1 /\ CopiesIn(Repaired(r), store) = 1
        /\ (script = "fix" /\ runs >= 1 /\ Forms(runs - 1).unrepaired /\ Forms(runs - 1).repaired) =>
              /\ pc = "fixing" =>
                    HasKey(store (-) SetToBag({Head(toFix)}), Repaired(Head(toFix)))
              /\ (pc = "done" /\ LeakedRecords # {}) => fatal /\ exitCode = 1 /\ updated = 0

\* load, repair, load and repair again: both rows of a person are in the
\* table and the second repair pass has ended on the existing tuple
RepairedAndUnrepairedWitness ==
    /\ job.kind = "reload"
    /\ job.plan = <<"load", "fix", "load", "fix">>
    /\ runs = 4 /\ pc = "done" /\ script = "fix"
    /\ fatal /\ exitCode = 1
    /\ CopiesIn(RowOf(RowT, 0), store) = 1
    /\ CopiesIn(Repaired(RowOf(RowT, 0)), store) = 1

====
